---------------------------- MODULE Spec2Model ----------------------------
(***************************************************************************)
(* The analysis pipeline of the due-diligence backend                      *)
(* (backend/routers/analysis.py) and the services it drives, as a state    *)
(* machine: deals, documents and analysis rows of the database, and one    *)
(* background job per trigger.                                             *)
(*                                                                         *)
(* Encoding of Python values.                                              *)
(*   - a JSON scalar is a record [t, v]: Num(n) a number, None the null,   *)
(*     Str(n) a string of length n (only emptiness is ever inspected);     *)
(*   - a dict is a function over the set of its keys (strings), a list is  *)
(*     a sequence;                                                         *)
(*   - an optional value (X | None) is a sequence of length 0 or 1;        *)
(*   - a nullable TEXT column holding JSON is <<>> (NULL) or               *)
(*     <<[json |-> value]>>, the text json.dumps wrote.                    *)
(* Ratios are fixed-point integers: x100 where the code rounds to 2        *)
(* decimals, x10 where it rounds to 1 decimal.                             *)
(***************************************************************************)
EXTENDS Integers, Sequences, FiniteSets, TLC

(***************************************************************************)
(* Python values                                                           *)
(***************************************************************************)
Num(n) == [t |-> "num", v |-> n]
None == [t |-> "none", v |-> 0]
Str(n) == [t |-> "str", v |-> n]

IsNum(x) == x.t = "num"

\* bool(x) of a JSON scalar: 0, None and "" are falsy
Truthy(x) == (x.t = "num" /\ x.v # 0) \/ (x.t = "str" /\ x.v > 0)

\* d.get(k, default)
Get(d, k, default) == IF k \in DOMAIN d THEN d[k] ELSE default

\* bool(x) of a dict or a list
NonEmpty(x) == DOMAIN x # {}

EmptyDict == [k \in {} |-> 0]

Abs(n) == IF n < 0 THEN -n ELSE n
Max(a, b) == IF a >= b THEN a ELSE b
Min(a, b) == IF a <= b THEN a ELSE b

RECURSIVE SumSeq(_)
SumSeq(s) == IF s = <<>> THEN 0 ELSE Head(s) + SumSeq(Tail(s))

\* Long division of r0/d carried to k more decimal digits, then rounded to the
\* nearest integer with ties to even: round(n / d * 10^k) for n >= 0, d > 0,
\* started as LongDiv(n \div d, n % d, d, k).
RECURSIVE LongDiv(_, _, _, _)
LongDiv(q, r, d, k) ==
    IF k = 0
    THEN IF 2 * r < d THEN q
         ELSE IF 2 * r > d THEN q + 1
         ELSE IF q % 2 = 0 THEN q ELSE q + 1
    ELSE LongDiv(q * 10 + ((r * 10) \div d), (r * 10) % d, d, k - 1)

\* round(n / d, k) as an integer number of 10^-k units, for integers n, d # 0
RoundDiv(n, d, k) ==
    LET neg == (n < 0) # (d < 0)
        m == LongDiv(Abs(n) \div Abs(d), Abs(n) % Abs(d), Abs(d), k)
    IN  IF neg THEN 0 - m ELSE m

\* utils.safe_div on JSON scalars a, b, as round(safe_div(a, b), k) in 10^-k
\* units. A falsy b gives 0.0; a non-numeric operand raises inside the try
\* block and gives 0.0.
safe_div(a, b, k) ==
    IF ~Truthy(b) THEN 0
    ELSE IF ~IsNum(a) \/ ~IsNum(b) THEN 0
    ELSE RoundDiv(a.v, b.v, k)

\* A nullable TEXT column holding JSON: <<>> is NULL, <<[json |-> v]>> is the
\* text json.dumps(v).
NULL == <<>>
json_dumps(value) == <<[json |-> value]>>

\* utils.parse_json_field: None for NULL/empty text, else json.loads(text)
parse_json_field(text) == IF text = NULL THEN <<>> ELSE <<text[1].json>>

(***************************************************************************)
(* Merge engine                                                            *)
(***************************************************************************)
\* one pass of the inner loop of merge_financial_data over one section
MergeSection_last_wins(acc, sec) ==
    LET upd == {k \in DOMAIN sec : sec[k] # None /\ sec[k] # Str(0)}
    IN  [k \in (DOMAIN acc) \cup upd |-> IF k \in upd THEN sec[k] ELSE acc[k]]

MergeSection(acc, sec) ==
    LET upd == {k \in DOMAIN sec :
                    /\ sec[k] # None
                    /\ sec[k] # Str(0)
                    /\ ~Truthy(Get(acc, k, None))}
    IN  [k \in (DOMAIN acc) \cup upd |-> IF k \in upd THEN sec[k] ELSE acc[k]]

MergeOne_unique_entries(merged, data) ==
    LET New(have, list) == SelectSeq(list, LAMBDA x : \A i \in DOMAIN have : have[i] # x)
    IN  [company_name |-> IF merged.company_name = "" /\ Get(data, "company_name", "") # ""
                          THEN data.company_name ELSE merged.company_name,
         period |-> IF merged.period = "" /\ Get(data, "period", "") # ""
                    THEN data.period ELSE merged.period,
         currency |-> merged.currency,
         income_statement |-> MergeSection(merged.income_statement,
                                           Get(data, "income_statement", EmptyDict)),
         balance_sheet |-> MergeSection(merged.balance_sheet,
                                        Get(data, "balance_sheet", EmptyDict)),
         cash_flow |-> MergeSection(merged.cash_flow, Get(data, "cash_flow", EmptyDict)),
         adjustments |-> merged.adjustments
                            \o New(merged.adjustments, Get(data, "adjustments", <<>>)),
         notes |-> merged.notes \o New(merged.notes, Get(data, "notes", <<>>))]

MergeOne(merged, data) ==
    [company_name |-> IF merged.company_name = "" /\ Get(data, "company_name", "") # ""
                      THEN data.company_name ELSE merged.company_name,
     period |-> IF merged.period = "" /\ Get(data, "period", "") # ""
                THEN data.period ELSE merged.period,
     currency |-> merged.currency,
     income_statement |-> MergeSection(merged.income_statement,
                                       Get(data, "income_statement", EmptyDict)),
     balance_sheet |-> MergeSection(merged.balance_sheet,
                                    Get(data, "balance_sheet", EmptyDict)),
     cash_flow |-> MergeSection(merged.cash_flow, Get(data, "cash_flow", EmptyDict)),
     adjustments |-> merged.adjustments \o Get(data, "adjustments", <<>>),
     notes |-> merged.notes \o Get(data, "notes", <<>>)]

MergeStart ==
    [company_name |-> "", period |-> "", currency |-> "USD",
     income_statement |-> EmptyDict, balance_sheet |-> EmptyDict,
     cash_flow |-> EmptyDict, adjustments |-> <<>>, notes |-> <<>>]

RECURSIVE MergeFold(_, _)
MergeFold(merged, data_list) ==
    IF data_list = <<>> THEN merged
    ELSE MergeFold(MergeOne(merged, Head(data_list)), Tail(data_list))

merge_always_folds(data_list) ==
    IF Len(data_list) = 0 THEN EmptyDict
    ELSE MergeFold(MergeStart, data_list)

merge_financial_data(data_list) ==
    IF Len(data_list) = 0 THEN EmptyDict
    ELSE IF Len(data_list) = 1 THEN data_list[1]
    ELSE MergeFold(MergeStart, data_list)


(***************************************************************************)
(* Local rule-based extractor (services/local_extractor.py)                *)
(*                                                                         *)
(* A document text is a sequence of lines [label, number]: a lower-cased   *)
(* caption followed, within 30 non-digit characters, by a number.          *)
(***************************************************************************)
Labels ==
    {"revenue", "cost of revenue", "gross profit", "operating expenses", "ebitda",
     "depreciation", "interest expense", "income tax", "net income", "cash",
     "total current assets", "total assets", "total current liabilities",
     "total liabilities", "total equity", "operating cash flow"}

\* The captions of Labels in which the keyword alternation of each field of
\* extract_financial_data_local finds a match (re.search: a substring match).
KeywordHits ==
    [revenue |-> {"revenue", "cost of revenue"},
     cogs |-> {"cost of revenue"},
     gross_profit |-> {"gross profit"},
     operating_expenses |-> {"operating expenses"},
     ebitda |-> {"ebitda"},
     depreciation |-> {"depreciation"},
     interest |-> {"interest expense"},
     tax |-> {"income tax"},
     net_income |-> {"net income"},
     cash |-> {"cash", "operating cash flow"},
     accounts_receivable |-> {},
     inventory |-> {},
     total_current_assets |-> {"total current assets"},
     ppe |-> {},
     total_assets |-> {"total assets"},
     accounts_payable |-> {},
     short_term_debt |-> {},
     total_current_liabilities |-> {"total current liabilities"},
     long_term_debt |-> {},
     total_liabilities |-> {"total liabilities"},
     total_equity |-> {"total equity"},
     operating_cf |-> {"operating cash flow"},
     investing_cf |-> {},
     financing_cf |-> {},
     net_cf |-> {},
     capex |-> {},
     fcf |-> {}]

IncomeFields ==
    {"revenue", "cogs", "gross_profit", "operating_expenses", "ebitda",
     "depreciation", "interest", "tax", "net_income"}
BalanceFields ==
    {"cash", "accounts_receivable", "inventory", "total_current_assets", "ppe",
     "total_assets", "accounts_payable", "short_term_debt",
     "total_current_liabilities", "long_term_debt", "total_liabilities",
     "total_equity"}
CashFlowFields ==
    {"operating_cf", "investing_cf", "financing_cf", "net_cf", "capex", "fcf"}

\* find_number: the number after the leftmost match of the field's keywords,
\* 0 when nothing matches
RECURSIVE find_number(_, _)
find_number(field, text) ==
    IF text = <<>> THEN 0
    ELSE IF Head(text).label \in KeywordHits[field] THEN Head(text).number
    ELSE find_number(field, Tail(text))

LocalNote == [kind |-> "dict", text |-> "Data extracted via local fallback due to AI service unavailability."]

extract_financial_data_local(document_text) ==
    [company_name |-> "Unknown Company (Local Extracted)",
     period |-> "FY (Local)",
     currency |-> "USD",
     income_statement |-> [f \in IncomeFields |-> Num(find_number(f, document_text))],
     balance_sheet |-> [f \in BalanceFields |-> Num(find_number(f, document_text))],
     cash_flow |-> [f \in CashFlowFields |-> Num(find_number(f, document_text))],
     adjustments |-> <<>>,
     notes |-> <<LocalNote>>]

(***************************************************************************)
(* Quality of earnings (services/financial_analyzer.py)                    *)
(***************************************************************************)
Zero == Num(0)

\* analyze_qoe raises TypeError on a non-numeric operand of +, abs or <
qoe_raises(financial_data) ==
    LET inc == Get(financial_data, "income_statement", EmptyDict)
        adjustments == Get(financial_data, "adjustments", <<>>)
        revenue == Get(inc, "revenue", Zero)
    IN  \/ \E f \in {"revenue", "net_income", "interest", "tax", "depreciation"} :
              ~IsNum(Get(inc, f, Zero))
        \/ \E i \in DOMAIN adjustments : ~IsNum(Get(adjustments[i], "amount", Zero))
        \/ /\ IsNum(revenue) /\ revenue.v > 0
           /\ ~IsNum(Get(inc, "operating_expenses", Zero))

\* for adj in adjustments: adj["impact"] = ...  (lines 25-26)
TagImpact(adj) ==
    [k \in (DOMAIN adj) \cup {"impact"} |->
        IF k = "impact"
        THEN (IF Get(adj, "amount", Zero).v > 0 THEN "add_back" ELSE "deduction")
        ELSE adj[k]]

CategoryPenalty_uniform(adj) ==
    IF Get(adj, "category", "") \in {"non_recurring", "related_party", "owner_compensation"}
    THEN 10 ELSE 0

CategoryPenalty(adj) ==
    LET cat == Get(adj, "category", "")
    IN  IF cat = "non_recurring" THEN 10
        ELSE IF cat = "related_party" THEN 8
        ELSE IF cat = "owner_compensation" THEN 5
        ELSE 0

ReportedEbitda_from_field(inc) == Get(inc, "ebitda", Zero).v

\* line 18: reported_ebitda = net_income + interest + tax + depreciation
ReportedEbitda(inc) ==
    Get(inc, "net_income", Zero).v + Get(inc, "interest", Zero).v
        + Get(inc, "tax", Zero).v + Get(inc, "depreciation", Zero).v

QoeClamp_none(score) == score

\* line 48: score = max(0, min(100, score))
QoeClamp(score) == Max(0, Min(100, score))

analyze_qoe(financial_data) ==
    LET inc == Get(financial_data, "income_statement", EmptyDict)
        adjustments == Get(financial_data, "adjustments", <<>>)
        revenue == Get(inc, "revenue", Zero).v
        reported_ebitda == ReportedEbitda(inc)
        total_adj == SumSeq([i \in DOMAIN adjustments |->
                                Get(adjustments[i], "amount", Zero).v])
        adjusted_ebitda == reported_ebitda + total_adj
        \* magnitude = |total_adj| / max(|reported_ebitda|, 1), compared exactly
        num == Abs(total_adj)
        den == Max(Abs(reported_ebitda), 1)
        tier == IF 4 * num > den THEN 30
                ELSE IF 10 * num > den THEN 15
                ELSE IF 20 * num > den THEN 5
                ELSE 0
        cats == SumSeq([i \in DOMAIN adjustments |-> CategoryPenalty(adjustments[i])])
        op_exp == Get(inc, "operating_expenses", Zero)
        opx == IF revenue > 0 /\ revenue < op_exp.v THEN 15 ELSE 0
        score == QoeClamp(80 - tier - cats - opx)
    IN  [reported_ebitda |-> reported_ebitda,
         adjusted_ebitda |-> adjusted_ebitda,
         total_adjustments |-> total_adj,
         adjustments |-> [i \in DOMAIN adjustments |-> TagImpact(adjustments[i])],
         quality_score |-> score,
         earnings_sustainability |->
            IF score >= 70 THEN "high" ELSE IF score >= 40 THEN "medium" ELSE "low",
         ebitda_margin |-> safe_div(Num(reported_ebitda), Num(revenue), 3),
         adjusted_ebitda_margin |-> safe_div(Num(adjusted_ebitda), Num(revenue), 3)]

\* The adjustment dicts are shared with the statement passed in (list() copies
\* the list, not its elements): the statement as analyze_qoe leaves it.
qoe_statement_after(financial_data) ==
    IF "adjustments" \in DOMAIN financial_data
    THEN [financial_data EXCEPT !.adjustments =
            [i \in DOMAIN financial_data.adjustments |->
                TagImpact(financial_data.adjustments[i])]]
    ELSE financial_data

(***************************************************************************)
(* Working capital                                                         *)
(***************************************************************************)
\* analyze_working_capital raises TypeError on current_assets - current_liab
wc_raises(financial_data) ==
    LET bs == Get(financial_data, "balance_sheet", EmptyDict)
    IN  \/ ~IsNum(Get(bs, "total_current_assets", Zero))
        \/ ~IsNum(Get(bs, "total_current_liabilities", Zero))

\* The operands of one safe_div(a, b) as an exact fraction <<n, d>> with d # 0:
\* 0/1 when safe_div returns 0.0.
Frac(a, b) == IF Truthy(b) /\ IsNum(a) /\ IsNum(b) THEN <<a.v, b.v>> ELSE <<0, 1>>

analyze_working_capital(financial_data) ==
    LET bs == Get(financial_data, "balance_sheet", EmptyDict)
        inc == Get(financial_data, "income_statement", EmptyDict)
        ar == Get(bs, "accounts_receivable", Zero)
        inventory == Get(bs, "inventory", Zero)
        current_assets == Get(bs, "total_current_assets", Zero)
        ap == Get(bs, "accounts_payable", Zero)
        current_liab == Get(bs, "total_current_liabilities", Zero)
        revenue == Get(inc, "revenue", Zero)
        cogs == Get(inc, "cogs", Zero)
        nwc == current_assets.v - current_liab.v
        dso == Frac(ar, revenue)
        dio == Frac(inventory, cogs)
        dpo == Frac(ap, cogs)
        \* ccc = (dso + dio - dpo) * 365 as one fraction
        ccc_n == 365 * (dso[1] * dio[2] * dpo[2] + dio[1] * dso[2] * dpo[2]
                        - dpo[1] * dso[2] * dio[2])
        ccc_d == dso[2] * dio[2] * dpo[2]
        \* ccc < days, for a denominator of either sign
        Below(days) == IF ccc_d > 0 THEN ccc_n < days * ccc_d ELSE ccc_n > days * ccc_d
    IN  [current_assets |-> current_assets.v,
         current_liabilities |-> current_liab.v,
         net_working_capital |-> nwc,
         current_ratio |-> safe_div(current_assets, current_liab, 2),
         dso |-> RoundDiv(365 * dso[1], dso[2], 1),
         dio |-> RoundDiv(365 * dio[1], dio[2], 1),
         dpo |-> RoundDiv(365 * dpo[1], dpo[2], 1),
         cash_conversion_cycle |-> RoundDiv(ccc_n, ccc_d, 1),
         nwc_as_pct_revenue |-> safe_div(Num(nwc), revenue, 3),
         assessment |-> IF Below(30) THEN "excellent"
                        ELSE IF Below(60) THEN "healthy"
                        ELSE IF Below(90) THEN "moderate"
                        ELSE "poor"]

(***************************************************************************)
(* Financial ratios and health score                                       *)
(***************************************************************************)
\* calculate_ratios raises TypeError on revenue - cogs (taken when gross_profit
\* is falsy), long_term_debt + short_term_debt and current_assets - inventory
ratios_raises(financial_data) ==
    LET inc == Get(financial_data, "income_statement", EmptyDict)
        bs == Get(financial_data, "balance_sheet", EmptyDict)
    IN  \/ /\ ~Truthy(Get(inc, "gross_profit", Zero))
           /\ (~IsNum(Get(inc, "revenue", Zero)) \/ ~IsNum(Get(inc, "cogs", Zero)))
        \/ ~IsNum(Get(bs, "long_term_debt", Zero))
        \/ ~IsNum(Get(bs, "short_term_debt", Zero))
        \/ ~IsNum(Get(bs, "total_current_assets", Zero))
        \/ ~IsNum(Get(bs, "inventory", Zero))

\* int(x) of n/d: truncation toward zero (d > 0)
TruncDiv(n, d) == IF n >= 0 THEN n \div d ELSE 0 - ((0 - n) \div d)

Clamp(lo, hi, x) == Max(lo, Min(hi, x))

\* Lines 168-175. Sub-scores in sixths of a point, from the rounded ratios
\* (current_ratio, debt_to_equity, asset_turnover, ocf_to_net_income x100;
\* net_margin x10).
SubScores(current_ratio, net_margin, debt_to_equity, asset_turnover, ocf_to_net_income) ==
    [liq |-> Min(600, Max(0, 3 * current_ratio)),
     prof |-> Min(600, Max(0, 3 * net_margin)),
     lev |-> Max(0, Min(600, 2 * (400 - debt_to_equity))),
     eff |-> Min(600, 6 * asset_turnover),
     cf_s |-> Min(600, Max(0, 4 * ocf_to_net_income))]

HealthScore(s) ==
    LET weighted == 20 * s.liq + 25 * s.prof + 20 * s.lev + 15 * s.eff + 20 * s.cf_s
    IN  Max(0, Min(100, TruncDiv(weighted, 600)))

HealthRating(health) ==
    IF health >= 80 THEN "Excellent"
    ELSE IF health >= 65 THEN "Good"
    ELSE IF health >= 45 THEN "Fair"
    ELSE IF health >= 25 THEN "Concerning"
    ELSE "Critical"

calculate_ratios(financial_data) ==
    LET inc == Get(financial_data, "income_statement", EmptyDict)
        bs == Get(financial_data, "balance_sheet", EmptyDict)
        cf == Get(financial_data, "cash_flow", EmptyDict)
        revenue == Get(inc, "revenue", Zero)
        cogs == Get(inc, "cogs", Zero)
        gross_profit == IF Truthy(Get(inc, "gross_profit", Zero))
                        THEN Get(inc, "gross_profit", Zero)
                        ELSE Num(revenue.v - cogs.v)
        ebitda == Get(inc, "ebitda", Zero)
        net_income == Get(inc, "net_income", Zero)
        interest == Get(inc, "interest", Zero)
        current_assets == Get(bs, "total_current_assets", Zero)
        inventory == Get(bs, "inventory", Zero)
        cash == Get(bs, "cash", Zero)
        current_liab == Get(bs, "total_current_liabilities", Zero)
        total_assets == Get(bs, "total_assets", Zero)
        total_equity == Get(bs, "total_equity", Zero)
        total_liab == Get(bs, "total_liabilities", Zero)
        ar == Get(bs, "accounts_receivable", Zero)
        total_debt == Num(Get(bs, "long_term_debt", Zero).v
                          + Get(bs, "short_term_debt", Zero).v)
        ocf == Get(cf, "operating_cf", Zero)
        fcf == Get(cf, "fcf", Zero)
        liquidity ==
            [current_ratio |-> safe_div(current_assets, current_liab, 2),
             quick_ratio |-> safe_div(Num(current_assets.v - inventory.v), current_liab, 2),
             cash_ratio |-> safe_div(cash, current_liab, 2)]
        profitability ==
            [gross_margin |-> safe_div(gross_profit, revenue, 3),
             ebitda_margin |-> safe_div(ebitda, revenue, 3),
             operating_margin |-> safe_div(ebitda, revenue, 3),
             net_margin |-> safe_div(net_income, revenue, 3),
             roe |-> safe_div(net_income, total_equity, 3),
             roa |-> safe_div(net_income, total_assets, 3)]
        leverage ==
            [debt_to_equity |-> safe_div(total_liab, total_equity, 2),
             debt_to_assets |-> safe_div(total_liab, total_assets, 2),
             interest_coverage |-> safe_div(ebitda, interest, 2),
             debt_to_ebitda |-> safe_div(total_debt, ebitda, 2)]
        efficiency ==
            [asset_turnover |-> safe_div(revenue, total_assets, 2),
             inventory_turnover |-> safe_div(cogs, inventory, 2),
             receivables_turnover |-> safe_div(revenue, ar, 2)]
        cash_flow ==
            [ocf_to_net_income |-> safe_div(ocf, net_income, 2),
             fcf_margin |-> safe_div(fcf, revenue, 3)]
        health == HealthScore(SubScores(liquidity.current_ratio,
                                        profitability.net_margin,
                                        leverage.debt_to_equity,
                                        efficiency.asset_turnover,
                                        cash_flow.ocf_to_net_income))
    IN  [liquidity |-> liquidity,
         profitability |-> profitability,
         leverage |-> leverage,
         efficiency |-> efficiency,
         cash_flow |-> cash_flow,
         overall_health_score |-> health,
         health_rating |-> HealthRating(health)]

(***************************************************************************)
(* DCF valuation. Rates are in basis points (0.10 = 1000), money in whole  *)
(* units, rounded after every multiplication.                              *)
(***************************************************************************)
BP == 10000

DcfDefaults ==
    [projection_years |-> 5,
     revenue_growth_rate |-> 1000,
     growth_decline_per_year |-> 100,
     capex_pct_revenue |-> 500,
     tax_rate |-> 2500,
     wacc |-> 1200,
     terminal_growth_rate |-> 300]

\* a = {**defaults, **(assumptions or {})}
DcfAssumptions(assumptions) ==
    [k \in DOMAIN DcfDefaults |-> Get(assumptions, k, DcfDefaults[k])]

DcfGrowth_no_floor(a, year) ==
    a.revenue_growth_rate - (year - 1) * a.growth_decline_per_year

\* line 210: growth = max(0.02, revenue_growth_rate - (year - 1) * decline)
DcfGrowth(a, year) ==
    Max(200, a.revenue_growth_rate - (year - 1) * a.growth_decline_per_year)

\* x * rate for a rate in basis points
Times(x, rate) == RoundDiv(x * rate, BP, 0)

RECURSIVE DcfRevenue(_, _, _)
DcfRevenue(base_revenue, a, year) ==
    IF year = 0 THEN base_revenue
    ELSE LET prev == DcfRevenue(base_revenue, a, year - 1)
         IN  prev + Times(prev, DcfGrowth(a, year))

\* x / (1 + wacc)^year
RECURSIVE Discount(_, _, _)
Discount(x, wacc, year) ==
    IF year = 0 THEN x
    ELSE IF BP + wacc = 0 THEN 0
    ELSE RoundDiv(Discount(x, wacc, year - 1) * BP, BP + wacc, 0)

\* calculate_dcf raises TypeError on a non-numeric revenue, debt or cash,
\* IndexError on projected_years[-1] when there is no projection year, and
\* ZeroDivisionError when wacc = terminal_growth_rate or wacc = -1
dcf_raises(financial_data, assumptions) ==
    LET a == DcfAssumptions(assumptions)
        inc == Get(financial_data, "income_statement", EmptyDict)
        bs == Get(financial_data, "balance_sheet", EmptyDict)
    IN  \/ ~IsNum(Get(inc, "revenue", Zero))
        \/ ~IsNum(Get(bs, "long_term_debt", Zero))
        \/ ~IsNum(Get(bs, "short_term_debt", Zero))
        \/ ~IsNum(Get(bs, "cash", Zero))
        \/ a.projection_years < 1
        \/ a.wacc = a.terminal_growth_rate
        \/ BP + a.wacc = 0

calculate_dcf(financial_data, assumptions) ==
    LET a == DcfAssumptions(assumptions)
        inc == Get(financial_data, "income_statement", EmptyDict)
        bs == Get(financial_data, "balance_sheet", EmptyDict)
        base_revenue == Get(inc, "revenue", Zero)
        ebitda == Get(inc, "ebitda", Zero)
        margin == Frac(ebitda, base_revenue)
        cash_val == Get(bs, "cash", Zero).v
        total_debt == Get(bs, "long_term_debt", Zero).v + Get(bs, "short_term_debt", Zero).v
        Year(y) ==
            LET revenue == DcfRevenue(base_revenue.v, a, y)
                year_ebitda == RoundDiv(revenue * margin[1], margin[2], 0)
                tax == Times(year_ebitda, a.tax_rate)
                capex == Times(revenue, a.capex_pct_revenue)
                fcf == year_ebitda - tax - capex
            IN  [year |-> y,
                 revenue |-> revenue,
                 ebitda |-> year_ebitda,
                 fcf |-> fcf,
                 pv_fcf |-> Discount(fcf, a.wacc, y),
                 growth_rate |-> DcfGrowth(a, y)]
        projected_years == [y \in 1..a.projection_years |-> Year(y)]
        final_fcf == projected_years[a.projection_years].fcf
        terminal_value ==
            RoundDiv(final_fcf * (BP + a.terminal_growth_rate),
                     a.wacc - a.terminal_growth_rate, 0)
        pv_terminal == Discount(terminal_value, a.wacc, a.projection_years)
        sum_pv_fcf == SumSeq([y \in 1..a.projection_years |-> projected_years[y].pv_fcf])
        enterprise_value == sum_pv_fcf + pv_terminal
    IN  [assumptions |-> a,
         projected_years |-> projected_years,
         terminal_value |-> terminal_value,
         pv_terminal_value |-> pv_terminal,
         sum_pv_fcf |-> sum_pv_fcf,
         enterprise_value |-> enterprise_value,
         equity_value |-> enterprise_value + cash_val - total_debt,
         ev_to_revenue |-> safe_div(Num(enterprise_value), base_revenue, 2),
         ev_to_ebitda |-> safe_div(Num(enterprise_value), ebitda, 2),
         current_ebitda_margin |-> safe_div(ebitda, base_revenue, 3)]

(***************************************************************************)
(* Red flags: 12 threshold rules over the rounded ratios. A flag carries   *)
(* its value in the scale of its metric (ratios x100, percentages and days *)
(* x10, money and scores x1).                                              *)
(***************************************************************************)
\* detect_red_flags raises TypeError on a non-numeric operating_cf or revenue
red_flags_raises(financial_data) ==
    LET inc == Get(financial_data, "income_statement", EmptyDict)
        cf == Get(financial_data, "cash_flow", EmptyDict)
    IN  \/ ~IsNum(Get(cf, "operating_cf", Zero))
        \/ ~IsNum(Get(inc, "revenue", Zero))

Flag_high_only(test, title, severity, metric, value, threshold) ==
    IF test /\ severity = "high"
    THEN <<[flag |-> title, severity |-> severity, metric |-> metric,
            value |-> value, threshold |-> threshold]>>
    ELSE <<>>

\* the helper flag(...) of detect_red_flags, appended when the rule's test holds
Flag(test, title, severity, metric, value, threshold) ==
    IF test
    THEN <<[flag |-> title, severity |-> severity, metric |-> metric,
            value |-> value, threshold |-> threshold]>>
    ELSE <<>>

detect_red_flags(financial_data, ratios, working_capital, qoe) ==
    LET inc == Get(financial_data, "income_statement", EmptyDict)
        cf == Get(financial_data, "cash_flow", EmptyDict)
        cr == ratios.liquidity.current_ratio
        dte == ratios.leverage.debt_to_equity
        ic == ratios.leverage.interest_coverage
        ocf == Get(cf, "operating_cf", Zero).v
        qs == qoe.quality_score
        dso == working_capital.dso
        ccc == working_capital.cash_conversion_cycle
        gm == ratios.profitability.gross_margin
        nm == ratios.profitability.net_margin
        d2e == ratios.leverage.debt_to_ebitda
        qr == ratios.liquidity.quick_ratio
    IN  Flag(cr < 100, "Low Liquidity", "high", "current_ratio", cr, 100)
        \o Flag(dte > 300, "Excessive Leverage", "high", "debt_to_equity", dte, 300)
        \o Flag(0 < ic /\ ic < 150, "Cannot Cover Interest", "high",
                "interest_coverage", ic, 150)
        \o Flag(ocf < 0, "Negative Operating Cash Flow", "high", "operating_cf", ocf, 0)
        \o Flag(qs < 30, "Severe Earnings Quality Issues", "high", "quality_score", qs, 30)
        \o Flag(dso > 600, "Slow Collections", "medium", "dso", dso, 600)
        \o Flag(ccc > 900, "Long Cash Cycle", "medium", "cash_conversion_cycle", ccc, 900)
        \o Flag(gm < 200, "Low Gross Margin", "medium", "gross_margin", gm, 200)
        \o Flag(nm < 0, "Net Loss", "medium", "net_margin", nm, 0)
        \o Flag(Get(inc, "revenue", Zero).v > 0 /\ ocf < 0, "Earnings Quality Concern",
                "medium", "ocf_vs_revenue", ocf, 0)
        \o Flag(d2e > 400, "High Debt Load", "medium", "debt_to_ebitda", d2e, 400)
        \o Flag(qr < 50, "Low Quick Ratio", "low", "quick_ratio", qr, 50)

(***************************************************************************)
(* Anomaly detector (services/ml_engine.py, AnomalyDetector)               *)
(***************************************************************************)
\* BENCHMARKS in dict order, in the scale of the rounded ratios
\* (margins x10, ratios x100)
BENCHMARKS ==
    << [metric |-> "gross_margin", title |-> "Unusual Gross Margin", low |-> 200, high |-> 800],
       [metric |-> "net_margin", title |-> "Unusual Net Margin", low |-> -50, high |-> 250],
       [metric |-> "current_ratio", title |-> "Unusual Current Ratio", low |-> 80, high |-> 300],
       [metric |-> "debt_to_equity", title |-> "Unusual Debt To Equity", low |-> 20, high |-> 350],
       [metric |-> "asset_turnover", title |-> "Unusual Asset Turnover", low |-> 30, high |-> 250],
       [metric |-> "ocf_to_net_income", title |-> "Unusual Ocf To Net Income", low |-> 50, high |-> 250],
       [metric |-> "interest_coverage", title |-> "Unusual Interest Coverage", low |-> 150, high |-> 3000],
       [metric |-> "ebitda_margin", title |-> "Unusual Ebitda Margin", low |-> 50, high |-> 400] >>

\* lines 155-164
Features(ratios) ==
    [gross_margin |-> ratios.profitability.gross_margin,
     net_margin |-> ratios.profitability.net_margin,
     ebitda_margin |-> ratios.profitability.ebitda_margin,
     current_ratio |-> ratios.liquidity.current_ratio,
     debt_to_equity |-> ratios.leverage.debt_to_equity,
     asset_turnover |-> ratios.efficiency.asset_turnover,
     ocf_to_net_income |-> ratios.cash_flow.ocf_to_net_income,
     interest_coverage |-> ratios.leverage.interest_coverage]

OutOfRange(b, features) == features[b.metric] < b.low \/ features[b.metric] > b.high

\* Layer 1 (lines 167-190): z = |value - midpoint| / spread, compared exactly
ZScoreAnomaly(b, features) ==
    LET value == features[b.metric]
        dev == Abs(2 * value - (b.low + b.high))
        width == b.high - b.low
    IN  IF OutOfRange(b, features)
        THEN <<[anomaly |-> b.title,
                severity |-> IF dev > 3 * width THEN "critical"
                             ELSE IF dev > 2 * width THEN "high" ELSE "medium",
                category |-> "statistical",
                metric |-> b.metric,
                value |-> value]>>
        ELSE <<>>

RECURSIVE Layer1(_, _)
Layer1(benchmarks, features) ==
    IF benchmarks = <<>> THEN <<>>
    ELSE ZScoreAnomaly(Head(benchmarks), features) \o Layer1(Tail(benchmarks), features)

\* line 219: all(v == 0 for v in feature_values)
AllZero(features) == \A m \in DOMAIN features : features[m] = 0

\* Layer 2 (lines 192-261). The verdict of the isolation forest is a record
\* [model, severity]: model "sec" for the pretrained forest of lines 194-211,
\* "fallback" for the forest fitted on the spot (lines 216-259); severity "none"
\* when no anomaly is appended (an inlier, the all-zero skip, or a swallowed
\* exception), else "medium" or "high".
Severities == {"none", "medium", "high"}

NoVerdict == [model |-> "fallback", severity |-> "none"]

Layer2(verdict) ==
    IF verdict.severity = "none" THEN <<>>
    ELSE <<[anomaly |-> IF verdict.model = "sec"
                        THEN "SEC Multivariate Profile Anomaly"
                        ELSE "Multivariate Financial Profile Anomaly",
            severity |-> verdict.severity,
            category |-> "statistical",
            metric |-> "multivariate_profile",
            value |-> 0]>>

\* Stand-in for a fitted forest: a fixed function of the features. The forest
\* of the fallback branch is fitted on 100 samples that np.random draws
\* uniformly over the benchmark ranges after np.random.seed(42), so a point
\* outside the ranges is isolated early; `many` is the number of out-of-range
\* features from which the score falls below the "high" cut-off.
ForestVerdict(features, many) ==
    LET out == {i \in DOMAIN BENCHMARKS : OutOfRange(BENCHMARKS[i], features)}
    IN  IF out = {} THEN "none"
        ELSE IF Cardinality(out) >= many THEN "high"
        ELSE "medium"

\* lines 241-246 on the samples of an undisturbed np.random.seed(42) stream
IsolationForestSeeded(features) ==
    [model |-> "fallback", severity |-> ForestVerdict(features, 3)]

\* lines 196-202 with the pretrained ./models/sec_isolation_forest.joblib
IsolationForestSec(features) ==
    [model |-> "sec", severity |-> ForestVerdict(features, 2)]

\* detect raises TypeError on a non-numeric operand of > or + in layer 3
detect_raises(financial_data) ==
    LET inc == Get(financial_data, "income_statement", EmptyDict)
        bs == Get(financial_data, "balance_sheet", EmptyDict)
        cf == Get(financial_data, "cash_flow", EmptyDict)
        ni == Get(inc, "net_income", Zero)
    IN  \/ ~IsNum(Get(inc, "ebitda", Zero))
        \/ ~IsNum(Get(inc, "revenue", Zero))
        \/ ~IsNum(Get(bs, "total_liabilities", Zero))
        \/ ~IsNum(Get(bs, "total_equity", Zero))
        \/ ~IsNum(Get(bs, "total_assets", Zero))
        \/ ~IsNum(ni)
        \/ (ni.v > 0 /\ ~IsNum(Get(cf, "operating_cf", Zero)))

\* Layer 3 (lines 263-317): rule-based domain checks
Layer3(financial_data, features) ==
    LET inc == Get(financial_data, "income_statement", EmptyDict)
        bs == Get(financial_data, "balance_sheet", EmptyDict)
        cf == Get(financial_data, "cash_flow", EmptyDict)
        gm == features.gross_margin
        ebitda == Get(inc, "ebitda", Zero).v
        revenue == Get(inc, "revenue", Zero).v
        total_assets == Get(bs, "total_assets", Zero).v
        total_le == Get(bs, "total_liabilities", Zero).v + Get(bs, "total_equity", Zero).v
        ocf == Get(cf, "operating_cf", Zero)
        ni == Get(inc, "net_income", Zero)
        Rule(test, title, severity, metric, value) ==
            IF test
            THEN <<[anomaly |-> title, severity |-> severity, category |-> "rule_based",
                    metric |-> metric, value |-> value]>>
            ELSE <<>>
    IN  Rule(gm > 950, "Suspiciously High Gross Margin", "high", "gross_margin", gm)
        \o Rule(ebitda > revenue /\ revenue > 0, "EBITDA Exceeds Revenue", "critical",
                "ebitda_vs_revenue", ebitda)
        \o Rule(total_assets > 0 /\ 100 * Abs(total_assets - total_le) > total_assets,
                "Balance Sheet Imbalance", "high", "bs_balance", total_assets - total_le)
        \o Rule(ni.v > 0 /\ ocf.v > 0 /\ 10 * ocf.v < 3 * ni.v,
                "Low Cash Conversion", "high", "ocf_to_net_income", safe_div(ocf, ni, 2))

\* AnomalyDetector.detect, given the verdict of its isolation forest
detect(financial_data, ratios, verdict) ==
    LET features == Features(ratios)
    IN  Layer1(BENCHMARKS, features) \o Layer2(verdict) \o Layer3(financial_data, features)

(***************************************************************************)
(* The pipeline: database, documents and background jobs                   *)
(***************************************************************************)
\* The number of POST /deals/{id}/analyze requests served
MaxJobs == 2

Jobs == 1..MaxJobs

\* Deal 1 is the seeded demo deal (seed.py), deal 2 a deal created through the
\* API with two uploaded documents.
Deals == {1, 2}
DocIds == {1, 2, 3}
DocDeal == <<1, 2, 2>>

\* deal.documents, in id order
RECURSIVE DocsFrom(_, _)
DocsFrom(d, i) ==
    IF i \notin DocIds THEN <<>>
    ELSE (IF DocDeal[i] = d THEN <<i>> ELSE <<>>) \o DocsFrom(d, i + 1)
DealDocs(d) == DocsFrom(d, 1)

AnalysisTypes ==
    <<"qoe", "working_capital", "ratios", "dcf", "red_flags", "anomalies", "ai_insights">>

\* Python values handed to save_analysis: a dict, a list or None
PyDict(d) == [kind |-> "dict", val |-> d]
PyList(l) == [kind |-> "list", val |-> l]
PyNone == [kind |-> "none", val |-> <<>>]

\* bool(results)
PyTruthy(x) == x.kind # "none" /\ NonEmpty(x.val)

\* seed.py DEMO_FINANCIAL_DATA, in units of 100,000
DEMO_FINANCIAL_DATA ==
    [company_name |-> "Apex Cloud Solutions",
     period |-> "FY 2025",
     currency |-> "USD",
     income_statement |->
        [revenue |-> Num(224), cogs |-> Num(67), gross_profit |-> Num(157),
         operating_expenses |-> Num(123), ebitda |-> Num(34), depreciation |-> Num(9),
         interest |-> Num(4), tax |-> Num(5), net_income |-> Num(16)],
     balance_sheet |->
        [cash |-> Num(32), accounts_receivable |-> Num(48), inventory |-> Num(3),
         total_current_assets |-> Num(87), ppe |-> Num(21), total_assets |-> Num(142),
         accounts_payable |-> Num(20), short_term_debt |-> Num(12),
         total_current_liabilities |-> Num(44), long_term_debt |-> Num(38),
         total_liabilities |-> Num(82), total_equity |-> Num(60)],
     cash_flow |->
        [operating_cf |-> Num(28), investing_cf |-> Num(-14), financing_cf |-> Num(-10),
         net_cf |-> Num(5), capex |-> Num(-12), fcf |-> Num(16)],
     adjustments |->
        <<[description |-> "One-time litigation settlement", amount |-> Num(8),
           category |-> "non_recurring"],
          [description |-> "Related party lease above market rate", amount |-> Num(-2),
           category |-> "related_party"]>>,
     notes |-> <<[kind |-> "str", text |-> "Revenue grew 28% YoY"]>>]

\* Responses of the external extractor (a non-empty JSON object each).
\* An income statement of a loss-making target
StatementLoss ==
    [company_name |-> "Borealis Ltd",
     period |-> "FY 2024",
     currency |-> "USD",
     income_statement |->
        [revenue |-> Num(100), cogs |-> Num(90), operating_expenses |-> Num(120),
         ebitda |-> Num(-10), net_income |-> Num(-20), interest |-> Num(8)],
     balance_sheet |-> EmptyDict,
     cash_flow |-> [operating_cf |-> Num(-5)],
     adjustments |-> <<>>,
     notes |-> <<>>]

\* A response with text where a number is expected ("N/A")
StatementGarbled ==
    [company_name |-> "",
     period |-> "",
     currency |-> "USD",
     income_statement |-> [revenue |-> Num(0), net_income |-> Num(0)],
     balance_sheet |->
        [total_current_assets |-> Str(3), total_current_liabilities |-> Num(30),
         total_assets |-> Num(90), total_liabilities |-> Num(50), total_equity |-> Num(30)],
     cash_flow |-> EmptyDict,
     adjustments |-> <<>>,
     notes |-> <<>>]

\* The balance sheet of the same target, extracted from a second document;
\* its liabilities and equity do not add up to its assets
StatementBalance ==
    [company_name |-> "Borealis Ltd",
     period |-> "",
     currency |-> "USD",
     income_statement |-> EmptyDict,
     balance_sheet |->
        [cash |-> Num(7), accounts_receivable |-> Num(25), inventory |-> Num(10),
         total_current_assets |-> Num(42), total_assets |-> Num(90),
         accounts_payable |-> Num(30), total_current_liabilities |-> Num(60),
         total_liabilities |-> Num(80), total_equity |-> Num(5)],
     cash_flow |-> EmptyDict,
     adjustments |-> <<>>,
     notes |-> <<>>]

\* How the language-model service behind claude_service answers during a
\* behaviour: "up" (a statement per document, the insights), "garbled" (valid
\* JSON with text for a number), "silent" (no JSON in the response: _parse_json
\* returns None) or "down" (the request raises)
ServiceStates == {"up", "garbled", "silent", "down"}

\* The statement the service reads from each document when it is up
Statements == <<DEMO_FINANCIAL_DATA, StatementLoss, StatementBalance>>

\* What one call of the primary extractor (claude_service.extract_financial_data)
\* does: it raises, returns None, or returns a statement
Raise == [kind |-> "raise"]
ReturnNone == [kind |-> "none"]
Return(statement) == [kind |-> "ok", data |-> statement]
PrimaryOutcome(state, doc) ==
    IF state = "down" THEN Raise
    ELSE IF state = "silent" THEN ReturnNone
    ELSE IF state = "garbled" THEN Return(StatementGarbled)
    ELSE Return(Statements[doc])

\* The text parse_file decodes from each uploaded file
SeedText == <<[label |-> "seed data", number |-> 2025]>>
IncomeText ==
    <<[label |-> "revenue", number |-> 100], [label |-> "cost of revenue", number |-> 90],
      [label |-> "net income", number |-> 20]>>
ErrorText == <<[label |-> "error parsing", number |-> 0]>>
FileTexts == << {SeedText}, {IncomeText}, {ErrorText} >>

\* What the pipeline loads on demand: the modules it imports inside
\* try/except ImportError, and the pretrained SEC models of the anomaly
\* detector (./models/sec_*.joblib, written by train_models.py)
Modules == {"ml_engine", "claude_service", "rag_service"}
Resources == Modules \cup {"sec_models"}

\* What generate_insights does when its call ends: the parsed JSON, None, or
\* an exception
DemoInsights == PyDict([executive_summary |-> "summary"])
Raised == [kind |-> "raise", val |-> <<>>]
InsightsOutcome(state) ==
    IF state = "down" THEN Raised
    ELSE IF state = "silent" THEN PyNone
    ELSE DemoInsights

VARIABLES
    dealStatus,   \* Deal.status of each deal
    docs,         \* the Document rows: extracted_text, doc_type, financial_data
    analyses,     \* the Analysis rows in id order
    job,          \* the local state of each background job
    unavailable,  \* the modules whose import raises ImportError, the files missing
    service,      \* how the external language-model service answers
    np_random,    \* the jobs drawing from numpy's global generator
    engine        \* a direct call of one engine function: arguments and result

vars == <<dealStatus, docs, analyses, job, unavailable, service, np_random, engine>>

\* A row of the analyses table (models.Analysis)
Row(deal_id, analysis_type, results, status) ==
    [deal_id |-> deal_id, analysis_type |-> analysis_type, results |-> results,
     status |-> status, error_message |-> NULL]

\* seed.py, lines 94-118: the pre-computed analyses of the demo deal
SeedResult(t) ==
    IF t = "qoe" THEN PyDict(analyze_qoe(DEMO_FINANCIAL_DATA))
    ELSE IF t = "working_capital" THEN PyDict(analyze_working_capital(DEMO_FINANCIAL_DATA))
    ELSE IF t = "ratios" THEN PyDict(calculate_ratios(DEMO_FINANCIAL_DATA))
    ELSE IF t = "dcf" THEN PyDict(calculate_dcf(DEMO_FINANCIAL_DATA, EmptyDict))
    ELSE IF t = "red_flags"
    THEN PyList(detect_red_flags(DEMO_FINANCIAL_DATA,
                                 calculate_ratios(DEMO_FINANCIAL_DATA),
                                 analyze_working_capital(DEMO_FINANCIAL_DATA),
                                 analyze_qoe(DEMO_FINANCIAL_DATA)))
    ELSE IF t = "anomalies" THEN PyList(<<>>)
    ELSE DemoInsights

SeedAnalyses ==
    [i \in DOMAIN AnalysisTypes |->
        Row(1, AnalysisTypes[i], json_dumps(SeedResult(AnalysisTypes[i])), "completed")]

\* The locals of run_analysis_pipeline. `locals` holds the stage results bound
\* so far (qoe, wc, ratios, dcf, red_flags, anomalies), `arg` and `existing`
\* the frame of save_analysis, `primary` what the primary extractor did for
\* each document visited, `call` the state of the generate_insights call in
\* the worker thread and `reply` what it returned, `interleaved` whether
\* another job used numpy's generator while this job drew its training
\* samples, `saved` the results this run passed to save_analysis and `at` the
\* step at which the job was stopped.
IdleJob ==
    [pc |-> "idle", deal_id |-> 0, idx |-> 1, all_financial_data |-> <<>>,
     merged |-> EmptyDict, locals |-> EmptyDict, stage |-> "", arg |-> PyNone,
     existing |-> 0, primary |-> <<>>, call |-> "none", reply |-> PyNone,
     interleaved |-> FALSE, saved |-> EmptyDict, at |-> ""]

\* No engine call in progress; `after` is the argument as the call left it
NoCall == [fn |-> "", args |-> <<>>, done |-> FALSE, ret |-> <<>>, after |-> <<>>]

\* The database after seed_demo_data and two uploads, no job started
Installed ==
    /\ dealStatus = [d \in Deals |-> IF d = 1 THEN "completed" ELSE "pending"]
    /\ docs = [i \in DocIds |->
                IF i = 1
                THEN [extracted_text |-> SeedText, doc_type |-> "income_statement",
                      financial_data |-> json_dumps(DEMO_FINANCIAL_DATA)]
                ELSE [extracted_text |-> <<>>, doc_type |-> "", financial_data |-> NULL]]
    /\ analyses = SeedAnalyses
    /\ job = [j \in Jobs |-> IdleJob]
    /\ unavailable \in {{}} \cup {{m} : m \in Resources}
    /\ service \in ServiceStates
    /\ "claude_service" \in unavailable => service = "up"
    /\ np_random = {}

Init == Installed /\ engine = NoCall

(***************************************************************************)
(* save_analysis (lines 252-271)                                           *)
(***************************************************************************)
\* lines 254-257: the index of the first row of the deal and type, 0 if none
RECURSIVE FirstRow(_, _, _, _)
FirstRow(rows, deal_id, analysis_type, i) ==
    IF i > Len(rows) THEN 0
    ELSE IF rows[i].deal_id = deal_id /\ rows[i].analysis_type = analysis_type THEN i
    ELSE FirstRow(rows, deal_id, analysis_type, i + 1)

find_existing(rows, deal_id, analysis_type) == FirstRow(rows, deal_id, analysis_type, 1)

\* a column that gets json.dumps(results) whatever the result is
stored_results_always_dumps(results) == json_dumps(results)

\* json.dumps(results) if results else None
stored_results(results) == IF PyTruthy(results) THEN json_dumps(results) ELSE NULL

\* save_analysis without the update branch: every call inserts a row
save_analysis_insert(rows, existing, deal_id, analysis_type, results) ==
    Append(rows, Row(deal_id, analysis_type, stored_results(results), "completed"))

\* save_analysis writing the row as pending, to be completed by a later step
save_analysis_pending(rows, existing, deal_id, analysis_type, results) ==
    IF existing # 0
    THEN [rows EXCEPT ![existing].results = stored_results(results),
                      ![existing].status = "pending"]
    ELSE Append(rows, Row(deal_id, analysis_type, stored_results(results), "pending"))

\* lines 258-271: update the row found, or insert a new one, and commit
save_analysis(rows, existing, deal_id, analysis_type, results) ==
    IF existing # 0
    THEN [rows EXCEPT ![existing].results = stored_results(results),
                      ![existing].status = "completed"]
    ELSE Append(rows, Row(deal_id, analysis_type, stored_results(results), "completed"))

(***************************************************************************)
(* run_analysis_pipeline (lines 78-249), one action per committed step     *)
(***************************************************************************)
Bind(locals, name, value) ==
    [k \in (DOMAIN locals) \cup {name} |-> IF k = name THEN value ELSE locals[k]]

Live(j) == job[j].pc \notin {"idle", "done", "failed", "crashed"}

\* POST /deals/{deal_id}/analyze (lines 18-28)
trigger_analysis(j, d) ==
    /\ job[j].pc = "idle"
    /\ \A k \in Jobs : k < j => job[k].pc # "idle"
    /\ dealStatus' = [dealStatus EXCEPT ![d] = "analyzing"]
    /\ job' = [job EXCEPT ![j] = [IdleJob EXCEPT !.pc = "queued", !.deal_id = d]]
    /\ UNCHANGED <<docs, analyses, unavailable, service, np_random, engine>>

\* lines 80-84
Start(j) ==
    /\ job[j].pc = "queued"
    /\ dealStatus' = [dealStatus EXCEPT ![job[j].deal_id] = "analyzing"]
    /\ job' = [job EXCEPT ![j].pc = "parse", ![j].idx = 1]
    /\ UNCHANGED <<docs, analyses, unavailable, service, np_random, engine>>

\* the document the loop of the current step is at
CurrentDoc(j) == DealDocs(job[j].deal_id)[job[j].idx]
LastDoc(j) == job[j].idx = Len(DealDocs(job[j].deal_id))

\* the job after the loop body: at the next document, or at the next step
Advance(jb, last, next_pc) ==
    IF last THEN [jb EXCEPT !.pc = next_pc, !.idx = 1] ELSE [jb EXCEPT !.idx = @ + 1]

\* The frame of a job that is over: its locals are gone. What stays is for the
\* record: the deal, and the step and stage it ended at.
Ended(jb, pc) ==
    [IdleJob EXCEPT !.pc = pc, !.deal_id = jb.deal_id, !.at = jb.pc,
                    !.stage = jb.stage]

\* the frame of a job that ended in the outer except (lines 242-247)
Failed(jb) == Ended(jb, "failed")

\* an outer except that only prints: the job ends, the deal stays as it was
OuterExcept_only_prints(j) ==
    /\ job' = [job EXCEPT ![j] = Failed(job[j])]
    /\ dealStatus' = dealStatus

\* An exception reaches the outer except (lines 242-247): the deal is marked
\* failed, which is committed, and the job ends
OuterExcept(j) ==
    /\ job' = [job EXCEPT ![j] = Failed(job[j])]
    /\ dealStatus' = [dealStatus EXCEPT ![job[j].deal_id] = "failed"]

\* STEP 1 (lines 87-91), one document
ParseDoc(j) ==
    /\ job[j].pc = "parse"
    /\ LET doc == CurrentDoc(j)
       IN  IF docs[doc].extracted_text = <<>>
           THEN \E text \in FileTexts[doc] :
                    docs' = [docs EXCEPT ![doc].extracted_text = text]
           ELSE docs' = docs
    /\ job' = [job EXCEPT ![j] = Advance(job[j], LastDoc(j), "classify")]
    /\ UNCHANGED <<dealStatus, analyses, unavailable, service, np_random, engine>>

\* DocumentClassifier.classify, keyword heuristic (ml_engine.py lines 79-105):
\* "other" when no keyword of any document type occurs
classify(text) ==
    IF \E i \in DOMAIN text : text[i].label \in Labels THEN "income_statement" ELSE "other"

\* STEP 2 (lines 94-104), one document; the whole step is skipped when the
\* import fails
ClassifyDoc(j) ==
    /\ job[j].pc = "classify"
    /\ IF "ml_engine" \in unavailable
       THEN /\ docs' = docs
            /\ job' = [job EXCEPT ![j].pc = "extract", ![j].idx = 1]
       ELSE /\ LET doc == CurrentDoc(j)
               IN  docs' = IF docs[doc].extracted_text # <<>>
                           THEN [docs EXCEPT ![doc].doc_type = classify(docs[doc].extracted_text)]
                           ELSE docs
            /\ job' = [job EXCEPT ![j] = Advance(job[j], LastDoc(j), "extract")]
    /\ UNCHANGED <<dealStatus, analyses, unavailable, service, np_random, engine>>

\* lines 112-117 without the except branch: an exception of the primary
\* extractor leaves the document without data
extract_without_fallback(outcome, text) ==
    IF outcome.kind = "ok" THEN <<outcome.data>> ELSE <<>>

\* lines 112-117: the data of one document, None as <<>>
extract_with_fallback(outcome, text) ==
    IF outcome.kind = "raise" THEN <<extract_financial_data_local(text)>>
    ELSE IF outcome.kind = "none" THEN <<>>
    ELSE <<outcome.data>>

\* STEP 3 (lines 107-124), one document; the whole step is skipped when the
\* import fails
ExtractDoc(j) ==
    /\ job[j].pc = "extract"
    /\ IF "claude_service" \in unavailable
       THEN /\ docs' = docs
            /\ job' = [job EXCEPT
                  ![j].pc = "merge", ![j].idx = 1,
                  ![j].primary = [i \in DOMAIN DealDocs(job[j].deal_id) |->
                                    [doc |-> DealDocs(job[j].deal_id)[i],
                                     kind |-> "unavailable"]]]
       ELSE LET doc == CurrentDoc(j)
                text == docs[doc].extracted_text
            IN  IF text = <<>>
                THEN /\ docs' = docs
                     /\ job' = [job EXCEPT ![j] =
                            Advance([job[j] EXCEPT !.primary =
                                        Append(@, [doc |-> doc, kind |-> "no_text"])],
                                    LastDoc(j), "merge")]
                ELSE LET outcome == PrimaryOutcome(service, doc)
                            data == extract_with_fallback(outcome, text)
                            jb == [job[j] EXCEPT !.primary =
                                        Append(@, [doc |-> doc, kind |-> outcome.kind])]
                        IN  IF data # <<>>
                            THEN /\ docs' = [docs EXCEPT ![doc].financial_data =
                                                json_dumps(data[1])]
                                 /\ job' = [job EXCEPT ![j] =
                                        Advance([jb EXCEPT !.all_financial_data =
                                                    Append(@, data[1])],
                                                LastDoc(j), "merge")]
                            ELSE /\ docs' = docs
                                 /\ job' = [job EXCEPT ![j] =
                                        Advance(jb, LastDoc(j), "merge")]
    /\ UNCHANGED <<dealStatus, analyses, unavailable, service, np_random, engine>>

\* lines 132-136: the stored extraction results of the deal's documents
RECURSIVE StoredStatements(_, _)
StoredStatements(rows, doc_list) ==
    IF doc_list = <<>> THEN <<>>
    ELSE parse_json_field(rows[Head(doc_list)].financial_data)
            \o StoredStatements(rows, Tail(doc_list))

\* not merged.get("income_statement")
NoIncomeStatement(merged) == ~NonEmpty(Get(merged, "income_statement", EmptyDict))

\* STEP 4 (lines 127-139)
Merge(j) ==
    /\ job[j].pc = "merge"
    /\ LET first == merge_financial_data(job[j].all_financial_data)
           all == IF NoIncomeStatement(first)
                  THEN job[j].all_financial_data
                        \o StoredStatements(docs, DealDocs(job[j].deal_id))
                  ELSE job[j].all_financial_data
           merged == IF NoIncomeStatement(first) THEN merge_financial_data(all) ELSE first
       IN  job' = [job EXCEPT ![j].all_financial_data = all,
                              ![j].merged = merged,
                              ![j].pc = IF NoIncomeStatement(merged) THEN "no_data" ELSE "rag"]
    /\ UNCHANGED <<dealStatus, docs, analyses, unavailable, service, np_random, engine>>

\* lines 139-143: the pipeline cannot run without financial data
FailNoData(j) ==
    /\ job[j].pc = "no_data"
    /\ dealStatus' = [dealStatus EXCEPT ![job[j].deal_id] = "failed"]
    /\ job' = [job EXCEPT ![j] = Ended(job[j], "failed")]
    /\ UNCHANGED <<docs, analyses, unavailable, service, np_random, engine>>

\* STEP 5 (lines 146-153): an error of the vector store is not an ImportError
\* and reaches the outer except
Rag(j) ==
    /\ job[j].pc = "rag"
    /\ \/ /\ job' = [job EXCEPT ![j].pc = "run", ![j].stage = "qoe"]
          /\ dealStatus' = dealStatus
       \/ /\ "rag_service" \notin unavailable
          /\ OuterExcept(j)
    /\ UNCHANGED <<docs, analyses, unavailable, service, np_random, engine>>

(***************************************************************************)
(* STEP 6 (lines 156-169): the calculation stages                          *)
(***************************************************************************)
StageRaises(stage, merged) ==
    IF stage = "qoe" THEN qoe_raises(merged)
    ELSE IF stage = "working_capital" THEN wc_raises(merged)
    ELSE IF stage = "ratios" THEN ratios_raises(merged)
    ELSE IF stage = "dcf" THEN dcf_raises(merged, EmptyDict)
    ELSE red_flags_raises(merged)

StageResult(stage, merged, locals) ==
    IF stage = "qoe" THEN PyDict(analyze_qoe(merged))
    ELSE IF stage = "working_capital" THEN PyDict(analyze_working_capital(merged))
    ELSE IF stage = "ratios" THEN PyDict(calculate_ratios(merged))
    ELSE IF stage = "dcf" THEN PyDict(calculate_dcf(merged, EmptyDict))
    ELSE PyList(detect_red_flags(merged, locals.ratios.val, locals.working_capital.val,
                                 locals.qoe.val))

\* a pipeline that goes from the ratios straight to the red flags
NextStage_skips_dcf(stage) ==
    IF stage = "qoe" THEN "working_capital"
    ELSE IF stage = "working_capital" THEN "ratios"
    ELSE IF stage = "ratios" THEN "red_flags"
    ELSE IF stage = "red_flags" THEN "anomalies"
    ELSE "ai_insights"

\* the order of the stages in lines 155-196
NextStage(stage) ==
    IF stage = "qoe" THEN "working_capital"
    ELSE IF stage = "working_capital" THEN "ratios"
    ELSE IF stage = "ratios" THEN "dcf"
    ELSE IF stage = "dcf" THEN "red_flags"
    ELSE IF stage = "red_flags" THEN "anomalies"
    ELSE "ai_insights"

\* the job entering save_analysis(db, deal_id, stage, results): the lookup of
\* lines 254-257 is done, the write is pending
EnterSave(jb, rows, results) ==
    [jb EXCEPT !.pc = "save", !.arg = results,
               !.existing = find_existing(rows, jb.deal_id, jb.stage)]

\* One engine call and the lookup of its save_analysis; an exception of the
\* engine reaches the outer except (lines 242-244)
Compute(j) ==
    /\ job[j].pc = "run"
    /\ job[j].stage \in {"qoe", "working_capital", "ratios", "dcf", "red_flags"}
    /\ IF StageRaises(job[j].stage, job[j].merged)
       THEN OuterExcept(j)
       ELSE /\ LET result == StageResult(job[j].stage, job[j].merged, job[j].locals)
                   jb == [job[j] EXCEPT
                            !.locals = Bind(@, job[j].stage, result),
                            !.merged = IF job[j].stage = "qoe"
                                       THEN qoe_statement_after(@) ELSE @]
               IN  job' = [job EXCEPT ![j] = EnterSave(jb, analyses, result)]
            /\ dealStatus' = dealStatus
    /\ UNCHANGED <<docs, analyses, unavailable, service, np_random, engine>>

\* the write and commit of save_analysis (lines 258-271), then the next stage
Save(j) ==
    /\ job[j].pc = "save"
    /\ analyses' = save_analysis(analyses, job[j].existing, job[j].deal_id,
                                 job[j].stage, job[j].arg)
    /\ job' = [job EXCEPT ![j].pc = IF job[j].stage = "ai_insights" THEN "complete" ELSE "run",
                          ![j].stage = IF job[j].stage = "ai_insights" THEN @ ELSE NextStage(@),
                          ![j].saved = Bind(@, job[j].stage, job[j].arg)]
    /\ UNCHANGED <<dealStatus, docs, unavailable, service, np_random, engine>>

(***************************************************************************)
(* STEP 7 (lines 172-178): anomaly detection                               *)
(***************************************************************************)
\* detector.detect returns with the verdict of its forest, or raises in
\* layer 3; then the lookup of save_analysis
DetectReturn(j, jb, verdict) ==
    IF detect_raises(jb.merged)
    THEN OuterExcept(j)
    ELSE /\ LET anomalies == PyList(detect(jb.merged, jb.locals.ratios.val, verdict))
            IN  job' = [job EXCEPT ![j] =
                    EnterSave([jb EXCEPT !.locals = Bind(@, "anomalies", anomalies)],
                              analyses, anomalies)]
         /\ dealStatus' = dealStatus

\* The import failed (line 178): anomalies stays unbound and [] is saved
AnomalySkip(j) ==
    /\ job[j].pc = "run" /\ job[j].stage = "anomalies"
    /\ "ml_engine" \in unavailable
    /\ job' = [job EXCEPT ![j] = EnterSave(job[j], analyses, PyList(<<>>))]
    /\ UNCHANGED <<dealStatus, docs, analyses, unavailable, service, np_random, engine>>

\* detect with the pretrained SEC forest (use_ml), or with all features zero:
\* numpy's generator is not touched
AnomalyDetect(j) ==
    /\ job[j].pc = "run" /\ job[j].stage = "anomalies"
    /\ "ml_engine" \notin unavailable
    /\ LET features == Features(job[j].locals.ratios.val)
       IN  IF "sec_models" \notin unavailable
           THEN DetectReturn(j, job[j], IsolationForestSec(features))
           ELSE /\ AllZero(features)
                /\ DetectReturn(j, job[j], NoVerdict)
    /\ UNCHANGED <<docs, analyses, unavailable, service, np_random, engine>>

\* detect without the SEC models, up to np.random.seed(42) (line 224): the
\* generator is the process-wide one, so seeding it restarts the stream of
\* every job that is drawing from it
AnomalySeed(j) ==
    /\ job[j].pc = "run" /\ job[j].stage = "anomalies"
    /\ "ml_engine" \notin unavailable /\ "sec_models" \in unavailable
    /\ ~AllZero(Features(job[j].locals.ratios.val))
    /\ job' = [k \in Jobs |->
                IF k = j THEN [job[j] EXCEPT !.pc = "fit", !.interleaved = (np_random # {})]
                ELSE IF k \in np_random THEN [job[k] EXCEPT !.interleaved = TRUE]
                ELSE job[k]]
    /\ np_random' = np_random \cup {j}
    /\ UNCHANGED <<dealStatus, docs, analyses, unavailable, service, engine>>

\* lines 225-261 and layer 3: the samples drawn, the forest fitted on them.
\* Samples of a disturbed stream can isolate the point at any depth.
AnomalyFit(j) ==
    /\ job[j].pc = "fit"
    /\ np_random' = np_random \ {j}
    /\ LET features == Features(job[j].locals.ratios.val)
       IN  IF job[j].interleaved
           THEN \E s \in Severities :
                    DetectReturn(j, job[j], [model |-> "fallback", severity |-> s])
           ELSE DetectReturn(j, job[j], IsolationForestSeeded(features))
    /\ UNCHANGED <<docs, analyses, unavailable, service, engine>>

(***************************************************************************)
(* STEP 8 (lines 181-196): insights, with the 90 s wait                    *)
(***************************************************************************)
\* The import failed (line 196), or the arguments of submit name the unbound
\* local anomalies (NameError, line 192): None is saved
InsightsSkip(j) ==
    /\ job[j].pc = "run" /\ job[j].stage = "ai_insights"
    /\ "claude_service" \in unavailable \/ "anomalies" \notin DOMAIN job[j].locals
    /\ job' = [job EXCEPT ![j] = EnterSave(job[j], analyses, PyNone)]
    /\ UNCHANGED <<dealStatus, docs, analyses, unavailable, service, np_random, engine>>

\* executor.submit (line 186): the call starts in the worker thread
InsightsSubmit(j) ==
    /\ job[j].pc = "run" /\ job[j].stage = "ai_insights"
    /\ "claude_service" \notin unavailable /\ "anomalies" \in DOMAIN job[j].locals
    /\ job' = [job EXCEPT ![j].pc = "insights_wait", ![j].call = "running"]
    /\ UNCHANGED <<dealStatus, docs, analyses, unavailable, service, np_random, engine>>

\* The worker thread: generate_insights returns or raises
InsightsCallEnds(j) ==
    /\ job[j].call = "running"
    /\ job[j].pc \in {"insights_wait", "insights_shutdown"}
    /\ job' = [job EXCEPT ![j].call = "ended", ![j].reply = InsightsOutcome(service)]
    /\ UNCHANGED <<dealStatus, docs, analyses, unavailable, service, np_random, engine>>

\* future.result returns or re-raises within the 90 s (lines 187-188, 192-194)
InsightsResult(j) ==
    /\ job[j].pc = "insights_wait" /\ job[j].call = "ended"
    /\ job' = [job EXCEPT ![j] =
            EnterSave(job[j], analyses,
                      IF job[j].reply = Raised THEN PyNone ELSE job[j].reply)]
    /\ UNCHANGED <<dealStatus, docs, analyses, unavailable, service, np_random, engine>>

\* future.result(timeout=90) raises TimeoutError: the with block is left
\* through ThreadPoolExecutor.__exit__, which is shutdown(wait=True)
InsightsTimeout(j) ==
    /\ job[j].pc = "insights_wait" /\ job[j].call = "running"
    /\ job' = [job EXCEPT ![j].pc = "insights_shutdown"]
    /\ UNCHANGED <<dealStatus, docs, analyses, unavailable, service, np_random, engine>>

\* shutdown(wait=True) returns once the worker thread has ended; then the
\* handler of line 189 saves None
InsightsShutdown(j) ==
    /\ job[j].pc = "insights_shutdown" /\ job[j].call = "ended"
    /\ job' = [job EXCEPT ![j] = EnterSave(job[j], analyses, PyNone)]
    /\ UNCHANGED <<dealStatus, docs, analyses, unavailable, service, np_random, engine>>

\* lines 200-201
Complete(j) ==
    /\ job[j].pc = "complete"
    /\ dealStatus' = [dealStatus EXCEPT ![job[j].deal_id] = "completed"]
    /\ job' = [job EXCEPT ![j].pc = "reports"]
    /\ UNCHANGED <<docs, analyses, unavailable, service, np_random, engine>>

\* How the reporting block can go (lines 204-240): the six reports are written,
\* one of them raises (query, commit, refresh or run_report_generation), or
\* the block raises before its loop (the imports, os.makedirs)
ReportOutcomes == {"generated", "report_raises", "block_raises"}

\* a reporting block without its two handlers: what is raised reaches the
\* outer except
ReportingEscapes_unguarded(outcome) == outcome # "generated"

\* Whether what the reporting block raises reaches the outer except of the
\* pipeline: a report's exception is caught at line 236, the block's at line
\* 239, and both handlers only print
ReportingEscapes(outcome) == FALSE

\* STEP 9 (lines 204-240): report generation. run_report_generation reads the
\* deal and its analyses and writes the GeneratedReport row only.
Reports(j) ==
    /\ job[j].pc = "reports"
    /\ \E outcome \in ReportOutcomes :
          IF ReportingEscapes(outcome)
          THEN OuterExcept(j)
          ELSE /\ job' = [job EXCEPT ![j] = Ended(job[j], "done")]
               /\ UNCHANGED dealStatus
    /\ UNCHANGED <<docs, analyses, unavailable, service, np_random, engine>>

\* The server process stops: every running job ends where it is, and what was
\* committed stays in the database
Crash ==
    /\ \E j \in Jobs : Live(j)
    /\ job' = [j \in Jobs |->
                IF Live(j) THEN Ended(job[j], "crashed")
                ELSE job[j]]
    /\ np_random' = {}
    /\ UNCHANGED <<dealStatus, docs, analyses, unavailable, service, engine>>

\* The steps of the thread that runs run_analysis_pipeline
Orchestrator(j) ==
    \/ Start(j) \/ ParseDoc(j) \/ ClassifyDoc(j) \/ ExtractDoc(j)
    \/ Merge(j) \/ FailNoData(j) \/ Rag(j)
    \/ Compute(j) \/ Save(j)
    \/ AnomalySkip(j) \/ AnomalyDetect(j) \/ AnomalySeed(j) \/ AnomalyFit(j)
    \/ InsightsSkip(j) \/ InsightsSubmit(j) \/ InsightsResult(j)
    \/ InsightsTimeout(j) \/ InsightsShutdown(j)
    \/ Complete(j) \/ Reports(j)

\* Every behaviour of the program: requests at any time, for any deal. Two
\* jobs of a deal without rows leave the rows in thousands of arrangements, so
\* the product is explored in three parts: runs that follow one another
\* (SeqSpec), concurrent jobs while the service gives no usable statement
\* (ConcSpec), and concurrent jobs of different deals (CrossSpec).
Next ==
    \/ \E j \in Jobs, d \in Deals : trigger_analysis(j, d)
    \/ \E j \in Jobs : Orchestrator(j)
    \/ \E j \in Jobs : InsightsCallEnds(j)
    \/ Crash

Spec == Init /\ [][Next]_vars

\* The same program when no request comes in while a job is running: the runs
\* follow one another
SeqTrigger(j, d) ==
    /\ \A k \in Jobs : ~Live(k)
    /\ trigger_analysis(j, d)

SeqNext ==
    \/ \E j \in Jobs, d \in Deals : SeqTrigger(j, d)
    \/ \E j \in Jobs : Orchestrator(j)
    \/ \E j \in Jobs : InsightsCallEnds(j)
    \/ Crash

SeqSpec == Init /\ [][SeqNext]_vars

\* Requests that come in while jobs are running, on a server that stays up,
\* when the service is garbled, silent or not installed
ConcInit ==
    /\ Init
    /\ service \in {"garbled", "silent"} \/ "claude_service" \in unavailable

ConcNext ==
    \/ \E j \in Jobs, d \in Deals : trigger_analysis(j, d)
    \/ \E j \in Jobs : Orchestrator(j)
    \/ \E j \in Jobs : InsightsCallEnds(j)

ConcSpec == ConcInit /\ [][ConcNext]_vars

\* Concurrent jobs of different deals: a request is served for a deal that no
\* job has been started for
CrossTrigger(j, d) ==
    /\ \A k \in Jobs : job[k].pc # "idle" => job[k].deal_id # d
    /\ trigger_analysis(j, d)

CrossNext ==
    \/ \E j \in Jobs, d \in Deals : CrossTrigger(j, d)
    \/ \E j \in Jobs : Orchestrator(j)
    \/ \E j \in Jobs : InsightsCallEnds(j)

CrossSpec == Init /\ [][CrossNext]_vars

(***************************************************************************)
(* Properties                                                              *)
(***************************************************************************)
IncomeStatement(merged) == Get(merged, "income_statement", EmptyDict)

\* an income statement that is empty or holds only zeros
EmptyOrAllZero(section) == \A k \in DOMAIN section : ~Truthy(section[k])

\* the job has left step 4 and is running the steps after it
PastMerge(j) ==
    job[j].pc \in {"rag", "run", "save", "fit", "insights_wait", "insights_shutdown",
                   "complete", "reports"}

\* the job is between the extraction loop and its end
PastExtraction(j) == job[j].pc \in {"merge", "no_data"} \/ PastMerge(j)

\* what the local extractor reads from a document
LocalStatement(doc) == extract_financial_data_local(docs[doc].extracted_text)

InList(x, list) == \E k \in DOMAIN list : list[k] = x

\* the rows of a deal and type
RowsOf(d, t) == {i \in DOMAIN analyses : analyses[i].deal_id = d /\ analyses[i].analysis_type = t}

Types == {AnalysisTypes[i] : i \in DOMAIN AnalysisTypes}

\* C1: NoUsableData is fatal: a job whose merged income statement is empty or
\* all-zero goes to the failing branch; it never runs a step after the merge
\* (RAG ingestion, a calculation stage, a save_analysis).
C1_NoUsableDataFatal ==
    \A j \in Jobs :
        PastMerge(j) => ~EmptyOrAllZero(IncomeStatement(job[j].merged))

\* C2: a calculation engine that raises does not end the job: no job ends in
\* the outer except out of a calculation stage or the anomaly detector.
C2_StageFailureNonFatal ==
    \A j \in Jobs :
        job[j].pc = "failed" => job[j].at \notin {"run", "fit"}

\* C3: once the 90 s wait for generate_insights has timed out, the orchestrator
\* has a step to take whether or not the call in the worker thread has ended.
C3_TimeoutNeverStalls ==
    \A j \in Jobs :
        job[j].pc = "insights_shutdown" => ENABLED Orchestrator(j)

\* C4: for every document for which the primary extractor raised, the local
\* extractor's statement is the document's stored extraction result and is in
\* the list that is merged; the job does not fail in the extraction step, and
\* it reaches the merge only after visiting every document of the deal.
C4_FallbackOnException ==
    \A j \in Jobs :
        /\ PastExtraction(j) \/ job[j].pc = "extract" =>
              \A i \in DOMAIN job[j].primary :
                 job[j].primary[i].kind = "raise" =>
                    /\ docs[job[j].primary[i].doc].financial_data
                          = json_dumps(LocalStatement(job[j].primary[i].doc))
                    /\ InList(LocalStatement(job[j].primary[i].doc),
                              job[j].all_financial_data)
        /\ PastExtraction(j) => Len(job[j].primary) = Len(DealDocs(job[j].deal_id))
        /\ job[j].pc \in {"rag", "no_data"} =>
              job[j].merged = merge_financial_data(job[j].all_financial_data)
        /\ job[j].pc = "failed" => job[j].at # "extract"

\* a raise on the first of two documents, both then in the list to merge
C4_Witness ==
    \E j \in Jobs :
        /\ job[j].pc = "rag"
        /\ Len(job[j].primary) = 2
        /\ job[j].primary[1].kind = "raise"
        /\ Len(job[j].all_financial_data) = 2

\* C5: for every document with text for which the primary extractor returned
\* None or could not be imported, the local extractor's statement is in the
\* list that is merged.
C5_FallbackOnNoneOrUnavailable ==
    \A j \in Jobs :
        PastExtraction(j) =>
            \A i \in DOMAIN job[j].primary :
                /\ job[j].primary[i].kind \in {"none", "unavailable"}
                /\ docs[job[j].primary[i].doc].extracted_text # <<>>
                => InList(LocalStatement(job[j].primary[i].doc), job[j].all_financial_data)

\* C6: when runs follow one another, a run that has completed leaves exactly
\* one row per analysis type for its deal, holding what this run saved.
C6_LastWriterWins ==
    \A j \in Jobs :
        job[j].pc = "reports" =>
            \A t \in Types :
                /\ Cardinality(RowsOf(job[j].deal_id, t)) = 1
                /\ \A i \in RowsOf(job[j].deal_id, t) :
                      analyses[i].results = stored_results(job[j].saved[t])

\* a second completed run of the deal that had no rows, and a completed run
\* of the seeded deal whose rows it rewrote
C6_Witness ==
    /\ job[1].pc = "done" /\ job[1].deal_id = 2 /\ job[1].at = "reports"
    /\ job[2].pc = "reports" /\ job[2].deal_id = 2

\* C7: no two rows of the analyses table have the same deal and type.
C7_UniquePerDealAndType ==
    \A a, b \in DOMAIN analyses :
        a # b => ~(/\ analyses[a].deal_id = analyses[b].deal_id
                   /\ analyses[a].analysis_type = analyses[b].analysis_type)

\* C8: a stop of the process changes nothing in the database; every row is
\* completed; and the deal of a job stopped before its final status write
\* stays analyzing as long as no later job is started for it.
C8_CrashKeepsCommitted ==
    /\ [][(\E j \in Jobs : job[j].pc # "crashed" /\ job'[j].pc = "crashed")
            => /\ analyses' = analyses
               /\ docs' = docs
               /\ dealStatus' = dealStatus]_vars
    /\ [](\A i \in DOMAIN analyses : analyses[i].status = "completed")
    /\ [](\A j \in Jobs :
            /\ job[j].pc = "crashed"
            /\ job[j].at # "reports"
            /\ \A k \in Jobs : k > j /\ job[k].pc # "idle" => job[k].deal_id # job[j].deal_id
            => dealStatus[job[j].deal_id] = "analyzing")

\* a job of the new deal stopped after it committed rows, the deal analyzing
C8_Witness ==
    \E j \in Jobs :
        /\ job[j].pc = "crashed" /\ job[j].at = "run" /\ job[j].stage = "dcf"
        /\ job[j].deal_id = 2
        /\ RowsOf(2, "ratios") # {}
        /\ dealStatus[2] = "analyzing"

\* C9: a document's extraction result, once written, never changes.
C9_ExtractionWriteOnce ==
    [][\A d \in DocIds :
          docs[d].financial_data # NULL => docs'[d].financial_data = docs[d].financial_data]_vars

\* what detect returns to a job that runs alone
DetectAlone(j) ==
    LET features == Features(job[j].locals.ratios.val)
        verdict == IF "sec_models" \notin unavailable THEN IsolationForestSec(features)
                   ELSE IF AllZero(features) THEN NoVerdict
                   ELSE IsolationForestSeeded(features)
    IN  PyList(detect(job[j].merged, job[j].locals.ratios.val, verdict))

\* C10: with jobs of different deals running concurrently, the anomalies a
\* job computes and saves are those it computes when it runs alone.
C10_SameAsAlone ==
    \A j \in Jobs :
        "anomalies" \in DOMAIN job[j].locals => job[j].locals.anomalies = DetectAlone(j)

(***************************************************************************)
(* Direct calls of the merge engine                                        *)
(*                                                                         *)
(* The engines are plain functions: seed.py and the pipeline call them     *)
(* with a statement and take what they return. A call is explored on its   *)
(* own: `engine` holds the arguments, and after the call the result and    *)
(* the arguments as the call left them.                                    *)
(***************************************************************************)
MaxDocs == 3

Call(fn, args) == [fn |-> fn, args |-> args, done |-> FALSE, ret |-> <<>>, after |-> args]

\* The pipeline at rest while an engine is called directly
AtRest == Installed /\ unavailable = {} /\ service = "up"

AdjLegal == [description |-> "legal settlement", amount |-> Num(5), category |-> "non_recurring"]
AdjOwner == [description |-> "owner salary", amount |-> Num(-2), category |-> "owner_compensation"]

\* What one extracted document says of its income statement: nothing, no
\* revenue line, or a revenue that is null, empty, zero or a number
IncomeSections ==
    {EmptyDict} \cup {[revenue |-> v] : v \in {None, Str(0), Num(0), Num(50), Num(100)}}

\* ... and of the rest of the statement
Remainders ==
    {EmptyDict,
     [balance_sheet |-> [cash |-> Num(7)], cash_flow |-> [fcf |-> Num(-3)],
      adjustments |-> <<AdjOwner, AdjLegal>>, notes |-> <<"restated", "restated">>],
     [company_name |-> "Apex", period |-> "FY2025", balance_sheet |-> [cash |-> Num(0)],
      cash_flow |-> [fcf |-> None], adjustments |-> <<AdjLegal, AdjLegal>>, notes |-> <<>>]}

MergeStatements ==
    Remainders \cup {Bind(r, "income_statement", i) : r \in Remainders, i \in IncomeSections}

DataLists == UNION {[1..n -> MergeStatements] : n \in 0..MaxDocs}

MergeInit ==
    /\ AtRest
    /\ engine \in {Call("merge_financial_data", l) : l \in DataLists}

\* merged = merge_financial_data(data_list)
CallMerge ==
    /\ engine.fn = "merge_financial_data"
    /\ ~engine.done
    /\ engine' = [engine EXCEPT !.done = TRUE, !.ret = merge_financial_data(engine.args)]
    /\ UNCHANGED <<dealStatus, docs, analyses, job, unavailable, service, np_random>>

MergeSpec == MergeInit /\ [][CallMerge]_vars

Merged == engine.fn = "merge_financial_data" /\ engine.done

\* C11: merging a single statement returns that statement unchanged: null,
\* empty and zero fields, missing sections and lists are as in the statement.
C11_MergeIdentity ==
    (Merged /\ Len(engine.args) = 1) => engine.ret = engine.args[1]

C11_Witness ==
    /\ Merged
    /\ Len(engine.args) = 1
    /\ "income_statement" \in DOMAIN engine.args[1]
    /\ Get(engine.args[1].income_statement, "revenue", Zero) = None
    /\ "notes" \notin DOMAIN engine.args[1]

Sections == {"income_statement", "balance_sheet", "cash_flow"}

\* data_list[i][section][key], None when the section or the key is missing
FieldOf(data_list, i, section, key) ==
    Get(Get(data_list[i], section, EmptyDict), key, None)

KeysOf(data_list, section) ==
    UNION {DOMAIN Get(data_list[i], section, EmptyDict) : i \in DOMAIN data_list}

\* the documents, in sequence order, whose value for the field is non-zero
NonZeroDocs(data_list, section, key) ==
    {i \in DOMAIN data_list : Truthy(FieldOf(data_list, i, section, key))}

\* C12: merging two or more statements gives every field of the three
\* sections the value of the first document, in sequence order, whose value
\* for it is non-zero (non-null, non-empty); later values never replace it.
C12_FirstNonZeroWins ==
    (Merged /\ Len(engine.args) >= 2) =>
        \A section \in Sections : \A key \in KeysOf(engine.args, section) :
            LET docs_with == NonZeroDocs(engine.args, section, key)
            IN  docs_with # {} =>
                    \E i \in docs_with :
                        /\ \A k \in docs_with : i <= k
                        /\ key \in DOMAIN engine.ret[section]
                        /\ engine.ret[section][key] = FieldOf(engine.args, i, section, key)

C12_Witness ==
    /\ Merged
    /\ Len(engine.args) = 3
    /\ FieldOf(engine.args, 1, "income_statement", "revenue") = Num(0)
    /\ FieldOf(engine.args, 2, "income_statement", "revenue") = Num(50)
    /\ FieldOf(engine.args, 3, "income_statement", "revenue") = Num(100)
    /\ engine.ret.income_statement.revenue = Num(50)

\* data_list[from][key] + data_list[from + 1][key] + ... of the list-valued key
RECURSIVE ListsFrom(_, _, _)
ListsFrom(data_list, key, from) ==
    IF from > Len(data_list) THEN <<>>
    ELSE Get(data_list[from], key, <<>>) \o ListsFrom(data_list, key, from + 1)

\* C13: merging two or more statements concatenates the adjustments of every
\* document in document order, and likewise the notes: nothing is dropped,
\* reordered or deduplicated, and the merged length is the sum of the lengths.
C13_ListsConcatenated ==
    (Merged /\ Len(engine.args) >= 2) =>
        \A key \in {"adjustments", "notes"} :
            /\ engine.ret[key] = ListsFrom(engine.args, key, 1)
            /\ Len(engine.ret[key]) =
                    SumSeq([i \in DOMAIN engine.args |-> Len(Get(engine.args[i], key, <<>>))])

C13_Witness ==
    /\ Merged
    /\ Len(engine.args) = 3
    /\ Get(engine.args[1], "adjustments", <<>>) = <<AdjOwner, AdjLegal>>
    /\ Get(engine.args[2], "adjustments", <<>>) = <<AdjLegal, AdjLegal>>
    /\ Get(engine.args[3], "notes", <<>>) = <<"restated", "restated">>
    /\ engine.ret.adjustments = <<AdjOwner, AdjLegal, AdjLegal, AdjLegal, AdjOwner, AdjLegal>>
    /\ Len(engine.ret.notes) = 4

\* C14: merging an empty sequence yields an empty record of full shape: the
\* three sections present as empty maps, adjustments and notes as empty lists.
C14_EmptyMergeKeepsShape ==
    (Merged /\ Len(engine.args) = 0) =>
        /\ Sections \cup {"adjustments", "notes"} \subseteq DOMAIN engine.ret
        /\ \A section \in Sections : DOMAIN engine.ret[section] = {}
        /\ engine.ret.adjustments = <<>>
        /\ engine.ret.notes = <<>>

(***************************************************************************)
(* Direct calls of analyze_qoe                                             *)
(***************************************************************************)
MaxAdjustments == 5

AdjLease == [description |-> "related party lease", amount |-> Num(40), category |-> "related_party"]
AdjOther == [description |-> "fx translation", amount |-> Num(0), category |-> "other"]

AdjustmentLists == UNION {[1..n -> {AdjLegal, AdjOwner, AdjLease, AdjOther}] : n \in 0..MaxAdjustments}

\* Income statements whose ebitda line differs from what the other lines give:
\* net_income + interest + tax + depreciation is 0, 10 or 100
QoeIncomes ==
    {[revenue |-> Num(r), cogs |-> Num(20), operating_expenses |-> Num(o), ebitda |-> Num(99),
      net_income |-> Num(n), interest |-> Num(1), tax |-> Num(2), depreciation |-> Num(3)] :
        r \in {0, 100}, o \in {50, 150}, n \in {-6, 4, 94}}

\* What analyze_qoe reads of seed.py DEMO_FINANCIAL_DATA, in units of 1,000
SeedQoeStatement ==
    [income_statement |->
        [revenue |-> Num(22400), cogs |-> Num(6720), gross_profit |-> Num(15680),
         operating_expenses |-> Num(12320), ebitda |-> Num(3360), depreciation |-> Num(890),
         interest |-> Num(420), tax |-> Num(512), net_income |-> Num(1538)],
     adjustments |->
        <<[description |-> "One-time litigation settlement", amount |-> Num(750),
           category |-> "non_recurring"],
          [description |-> "Former CEO consulting fees (above market)", amount |-> Num(320),
           category |-> "owner_compensation"],
          [description |-> "Related party lease above market rate", amount |-> Num(-180),
           category |-> "related_party"],
          [description |-> "COVID-era PPP loan forgiveness", amount |-> Num(200),
           category |-> "non_recurring"]>>]

\* A statement whose revenue came back as text
TextRevenueStatement ==
    [income_statement |-> [revenue |-> Str(3), net_income |-> Num(4)],
     adjustments |-> <<AdjLegal>>]

QoeStatements ==
    {[income_statement |-> i, adjustments |-> a] : i \in QoeIncomes, a \in AdjustmentLists}
        \cup {[income_statement |-> i] : i \in QoeIncomes}
        \cup {SeedQoeStatement, TextRevenueStatement}

QoeInit ==
    /\ AtRest
    /\ engine \in {Call("analyze_qoe", s) : s \in QoeStatements}

\* analyze_qoe raises before line 25, with the adjustments not yet tagged
qoe_raises_early(financial_data) ==
    LET inc == Get(financial_data, "income_statement", EmptyDict)
        adjustments == Get(financial_data, "adjustments", <<>>)
    IN  \/ \E f \in {"net_income", "interest", "tax", "depreciation"} : ~IsNum(Get(inc, f, Zero))
        \/ \E i \in DOMAIN adjustments : ~IsNum(Get(adjustments[i], "amount", Zero))

\* qoe = analyze_qoe(financial_data): the result or the exception, and the
\* statement as the call leaves it
CallQoe ==
    /\ engine.fn = "analyze_qoe"
    /\ ~engine.done
    /\ engine' = [engine EXCEPT
                    !.done = TRUE,
                    !.ret = IF qoe_raises(engine.args) THEN Raise
                            ELSE Return(analyze_qoe(engine.args)),
                    !.after = IF qoe_raises_early(engine.args) THEN engine.args
                              ELSE qoe_statement_after(engine.args)]
    /\ UNCHANGED <<dealStatus, docs, analyses, job, unavailable, service, np_random>>

QoeSpec == QoeInit /\ [][CallQoe]_vars

QoeReturned == engine.fn = "analyze_qoe" /\ engine.done /\ engine.ret.kind = "ok"

\* C15: the quality score analyze_qoe returns is within [0,100] whatever the
\* count, category and magnitude of the adjustments, also when their total
\* exceeds ten times the reported EBITDA.
C15_ScoreInRange ==
    QoeReturned =>
        /\ engine.ret.data.quality_score >= 0
        /\ engine.ret.data.quality_score <= 100

\* five related-party adjustments of 40 against a reported EBITDA of 10, and
\* operating expenses above revenue: 80 - 30 - 40 - 15 is below 0
C15_Witness ==
    /\ QoeReturned
    /\ engine.args.income_statement \in QoeIncomes
    /\ ReportedEbitda(engine.args.income_statement) = 10
    /\ engine.args.income_statement.operating_expenses = Num(150)
    /\ engine.args.income_statement.revenue = Num(100)
    /\ Get(engine.args, "adjustments", <<>>) = [i \in 1..5 |-> AdjLease]
    /\ engine.ret.data.total_adjustments > 10 * engine.ret.data.reported_ebitda
    /\ engine.ret.data.quality_score = 0

\* C16: analyze_qoe reports reported_ebitda = net_income + interest + tax +
\* depreciation (not the statement's ebitda line, not revenue - cogs - opex),
\* total_adjustments = the signed sum of the adjustment amounts and
\* adjusted_ebitda = reported_ebitda + total_adjustments; for the seed fixture
\* 3,360,000, 1,090,000 and 4,450,000 (here in units of 1,000).
C16_EbitdaArithmetic ==
    QoeReturned =>
        LET inc == Get(engine.args, "income_statement", EmptyDict)
            adjustments == Get(engine.args, "adjustments", <<>>)
            Line(f) == Get(inc, f, Zero).v
            out == engine.ret.data
        IN  /\ out.reported_ebitda =
                    Line("net_income") + Line("interest") + Line("tax") + Line("depreciation")
            /\ out.total_adjustments =
                    SumSeq([i \in DOMAIN adjustments |-> adjustments[i].amount.v])
            /\ out.adjusted_ebitda = out.reported_ebitda + out.total_adjustments
            /\ engine.args = SeedQoeStatement =>
                    /\ out.reported_ebitda = 3360
                    /\ out.total_adjustments = 1090
                    /\ out.adjusted_ebitda = 4450

C16_Witness ==
    /\ QoeReturned
    /\ engine.args = SeedQoeStatement
    /\ engine.ret.data.adjusted_ebitda = 4450

\* C17: analyze_qoe leaves the statement it is given unchanged: every
\* adjustment of the statement has the same fields and values after the call
\* as before it.
C17_StatementUnchanged ==
    (engine.fn = "analyze_qoe" /\ engine.done) => engine.after = engine.args

(***************************************************************************)
(* Direct calls of calculate_dcf                                           *)
(***************************************************************************)
MaxYears == 6

\* d, or d with key k bound to one of vs
Opt(D, k, vs) == D \cup {Bind(d, k, v) : d \in D, v \in vs}

\* The assumptions a caller overrides, in basis points: growth of 1%, 10% or
\* 30% declining by 0, 5 or 50 points a year or rising by 1, a discount rate
\* at, below or above the terminal growth rate
AssumptionSets ==
    LET growth == Opt({EmptyDict}, "revenue_growth_rate", {100, 1000, 3000})
        decline == Opt(growth, "growth_decline_per_year", {-100, 0, 500, 5000})
        years == Opt(decline, "projection_years", 0..MaxYears)
        wacc == Opt(years, "wacc", {200, 300, 800})
    IN  Opt(wacc, "terminal_growth_rate", {500})

DcfStatements ==
    {[income_statement |-> [revenue |-> Num(r), ebitda |-> Num(200)],
      balance_sheet |-> [cash |-> Num(50), long_term_debt |-> Num(300),
                         short_term_debt |-> Num(100)]] : r \in {0, 1000}}

DcfInit ==
    /\ AtRest
    /\ engine \in {Call("calculate_dcf", [financial_data |-> s, assumptions |-> a]) :
                        s \in DcfStatements, a \in AssumptionSets}

\* dcf = calculate_dcf(financial_data, assumptions): the result or the exception
CallDcf ==
    /\ engine.fn = "calculate_dcf"
    /\ ~engine.done
    /\ engine' = [engine EXCEPT
                    !.done = TRUE,
                    !.ret = IF dcf_raises(engine.args.financial_data, engine.args.assumptions)
                            THEN Raise
                            ELSE Return(calculate_dcf(engine.args.financial_data,
                                                      engine.args.assumptions))]
    /\ UNCHANGED <<dealStatus, docs, analyses, job, unavailable, service, np_random>>

DcfSpec == DcfInit /\ [][CallDcf]_vars

DcfDone == engine.fn = "calculate_dcf" /\ engine.done
DcfReturned == DcfDone /\ engine.ret.kind = "ok"

\* C18: in every projection year y the growth rate calculate_dcf applies is
\* max(2%, revenue_growth_rate - (y - 1) * growth_decline_per_year): never
\* below 2% however large the decline, so revenue never shrinks.
C18_GrowthFloor ==
    DcfReturned =>
        LET a == engine.ret.data.assumptions
            years == engine.ret.data.projected_years
            base == engine.args.financial_data.income_statement.revenue.v
        IN  \A y \in 1..a.projection_years :
                LET declined == a.revenue_growth_rate - (y - 1) * a.growth_decline_per_year
                    before == IF y = 1 THEN base ELSE years[y - 1].revenue
                IN  /\ years[y].growth_rate = IF declined > 200 THEN declined ELSE 200
                    /\ years[y].growth_rate >= 200
                    /\ years[y].revenue = before + RoundDiv(before * years[y].growth_rate, BP, 0)

\* growth 10% declining by 5 points a year over 5 years
C18_Witness ==
    /\ DcfReturned
    /\ engine.ret.data.assumptions.revenue_growth_rate = 1000
    /\ engine.ret.data.assumptions.growth_decline_per_year = 500
    /\ engine.ret.data.assumptions.projection_years = 5
    /\ engine.args.financial_data.income_statement.revenue = Num(1000)
    /\ engine.ret.data.projected_years[5].growth_rate = 200
    /\ engine.ret.data.projected_years[5].revenue > engine.ret.data.projected_years[4].revenue

\* C19: when wacc <= terminal_growth_rate, calculate_dcf neither raises a
\* division error nor returns a terminal value computed from the zero or
\* negative denominator.
C19_TerminalValueGuarded ==
    LET a == DcfAssumptions(engine.args.assumptions)
    IN  (DcfDone /\ a.projection_years >= 1 /\ a.wacc <= a.terminal_growth_rate) =>
            /\ engine.ret.kind # "raise"
            /\ engine.ret.data.terminal_value #
                    RoundDiv(engine.ret.data.projected_years[a.projection_years].fcf
                                * (BP + a.terminal_growth_rate),
                             a.wacc - a.terminal_growth_rate, 0)

(***************************************************************************)
(* Direct calls of detect_red_flags                                        *)
(***************************************************************************)
\* Every metric on either side of its threshold, the threshold itself
\* included (ratios x100, percentages and days x10)
FlagInputs ==
    {[financial_data |->
        [income_statement |-> [revenue |-> Num(revenue)],
         cash_flow |-> [operating_cf |-> Num(ocf)]],
      ratios |->
        [liquidity |-> [current_ratio |-> cr, quick_ratio |-> qr],
         leverage |-> [debt_to_equity |-> dte, interest_coverage |-> ic,
                       debt_to_ebitda |-> d2e],
         profitability |-> [gross_margin |-> gm, net_margin |-> nm]],
      working_capital |-> [dso |-> dso, cash_conversion_cycle |-> ccc],
      qoe |-> [quality_score |-> qs]] :
        revenue \in {0, 10}, ocf \in {-1, 0}, cr \in {90, 100, 150}, qr \in {49, 50},
        dte \in {300, 301}, ic \in {0, 100, 150}, d2e \in {400, 401},
        gm \in {199, 200}, nm \in {-1, 0}, dso \in {600, 601}, ccc \in {900, 901},
        qs \in {29, 30}}

FlagsInit ==
    /\ AtRest
    /\ engine \in {Call("detect_red_flags", x) : x \in FlagInputs}

\* red_flags = detect_red_flags(financial_data, ratios, working_capital, qoe)
CallRedFlags ==
    /\ engine.fn = "detect_red_flags"
    /\ ~engine.done
    /\ engine' = [engine EXCEPT
                    !.done = TRUE,
                    !.ret = IF red_flags_raises(engine.args.financial_data) THEN Raise
                            ELSE Return(detect_red_flags(engine.args.financial_data,
                                                         engine.args.ratios,
                                                         engine.args.working_capital,
                                                         engine.args.qoe))]
    /\ UNCHANGED <<dealStatus, docs, analyses, job, unavailable, service, np_random>>

FlagsSpec == FlagsInit /\ [][CallRedFlags]_vars

FlagsReturned == engine.fn = "detect_red_flags" /\ engine.done /\ engine.ret.kind = "ok"

\* the flags of the output with this title and severity
Flagged(title, severity) ==
    {i \in DOMAIN engine.ret.data :
        engine.ret.data[i].flag = title /\ engine.ret.data[i].severity = severity}

\* The 12 rules as the specification lists them: title, severity and the
\* condition on the inputs of the call
RuleTable ==
    LET x == engine.args
        ocf == x.financial_data.cash_flow.operating_cf.v
        revenue == x.financial_data.income_statement.revenue.v
    IN  {<<"Low Liquidity", "high", x.ratios.liquidity.current_ratio < 100>>,
         <<"Excessive Leverage", "high", x.ratios.leverage.debt_to_equity > 300>>,
         <<"Cannot Cover Interest", "high",
           0 < x.ratios.leverage.interest_coverage /\ x.ratios.leverage.interest_coverage < 150>>,
         <<"Negative Operating Cash Flow", "high", ocf < 0>>,
         <<"Severe Earnings Quality Issues", "high", x.qoe.quality_score < 30>>,
         <<"Slow Collections", "medium", x.working_capital.dso > 600>>,
         <<"Long Cash Cycle", "medium", x.working_capital.cash_conversion_cycle > 900>>,
         <<"Low Gross Margin", "medium", x.ratios.profitability.gross_margin < 200>>,
         <<"Net Loss", "medium", x.ratios.profitability.net_margin < 0>>,
         <<"Earnings Quality Concern", "medium", revenue > 0 /\ ocf < 0>>,
         <<"High Debt Load", "medium", x.ratios.leverage.debt_to_ebitda > 400>>,
         <<"Low Quick Ratio", "low", x.ratios.liquidity.quick_ratio < 50>>}

\* C20: detect_red_flags evaluates its 12 rules independently: a rule's flag
\* is in the output exactly when the rule's own condition holds, whichever
\* other rules fire; "Low Liquidity" (high) is present iff the current ratio
\* is below 1.0, and a negative operating cash flow with positive revenue
\* yields both the high and the medium cash-flow flag.
C20_RulesIndependent ==
    FlagsReturned =>
        /\ Cardinality(RuleTable) = 12
        /\ \A rule \in RuleTable :
                Cardinality(Flagged(rule[1], rule[2])) = IF rule[3] THEN 1 ELSE 0
        /\ Len(engine.ret.data) = Cardinality({rule \in RuleTable : rule[3]})
        /\ engine.args.ratios.liquidity.current_ratio = 90 =>
                Flagged("Low Liquidity", "high") # {}
        /\ engine.args.ratios.liquidity.current_ratio = 150 =>
                Flagged("Low Liquidity", "high") = {}

\* every rule fires at once, the two cash-flow flags among them
C20_Witness ==
    /\ FlagsReturned
    /\ Len(engine.ret.data) = 12
    /\ engine.args.ratios.liquidity.current_ratio = 90
    /\ engine.args.financial_data.cash_flow.operating_cf.v < 0
    /\ engine.args.financial_data.income_statement.revenue.v > 0
    /\ Flagged("Negative Operating Cash Flow", "high") # {}
    /\ Flagged("Earnings Quality Concern", "medium") # {}

(***************************************************************************)
(* Direct calls of AnomalyDetector.detect                                  *)
(***************************************************************************)
\* Statements on either side of each layer-3 rule: EBITDA below, at and above
\* a revenue that is negative, zero or positive; assets that are negative,
\* zero or positive against liabilities plus equity off by 10, 1, 0 and -1;
\* operating cash flow at 0%, 20% and 50% of a net income of 10
DetectStatements ==
    {[income_statement |-> [revenue |-> Num(revenue), ebitda |-> Num(ebitda),
                            net_income |-> Num(ni)],
      balance_sheet |-> [total_assets |-> Num(ta), total_liabilities |-> Num(60),
                         total_equity |-> Num(te)],
      cash_flow |-> [operating_cf |-> Num(ocf)]] :
        revenue \in {-10, 0, 100}, ebitda \in {-5, 0, 50, 150}, ni \in {0, 10},
        ta \in {-100, 0, 100}, te \in {30, 39, 40, 41}, ocf \in {0, 2, 5}}

\* detector = AnomalyDetector(): use_ml tells whether the SEC models loaded
DetectInit ==
    /\ AtRest
    /\ engine \in {Call("detect", [financial_data |-> s, ratios |-> calculate_ratios(s),
                                   use_ml |-> m]) :
                        s \in DetectStatements, m \in BOOLEAN}

\* anomalies = detector.detect(financial_data, ratios), called by one thread
CallDetect ==
    /\ engine.fn = "detect"
    /\ ~engine.done
    /\ LET features == Features(engine.args.ratios)
           verdict == IF engine.args.use_ml THEN IsolationForestSec(features)
                      ELSE IF AllZero(features) THEN NoVerdict
                      ELSE IsolationForestSeeded(features)
       IN  engine' = [engine EXCEPT
                        !.done = TRUE,
                        !.ret = IF detect_raises(engine.args.financial_data) THEN Raise
                                ELSE Return(detect(engine.args.financial_data,
                                                   engine.args.ratios, verdict))]
    /\ UNCHANGED <<dealStatus, docs, analyses, job, unavailable, service, np_random>>

DetectSpec == DetectInit /\ [][CallDetect]_vars

DetectReturned == engine.fn = "detect" /\ engine.done /\ engine.ret.kind = "ok"

\* the anomalies of the output with this title and severity
Anomalies(title, severity) ==
    {i \in DOMAIN engine.ret.data :
        engine.ret.data[i].anomaly = title /\ engine.ret.data[i].severity = severity}

\* C21: detect emits a "Balance Sheet Imbalance" anomaly of severity high,
\* carrying the discrepancy, whenever |total_assets - (total_liabilities +
\* total_equity)| exceeds 1% of total_assets, and none when it is within 1%.
C21_ImbalanceFlagged ==
    DetectReturned =>
        LET bs == engine.args.financial_data.balance_sheet
            discrepancy == bs.total_assets.v - (bs.total_liabilities.v + bs.total_equity.v)
            found == Anomalies("Balance Sheet Imbalance", "high")
        IN  /\ 100 * Abs(discrepancy) > bs.total_assets.v <=> found # {}
            /\ \A i \in found : engine.ret.data[i].value = discrepancy

\* C22: detect emits an "EBITDA Exceeds Revenue" anomaly of severity critical
\* for every statement whose EBITDA is greater than its revenue, a revenue of
\* zero or below included.
C22_EbitdaAboveRevenueFlagged ==
    DetectReturned =>
        LET inc == engine.args.financial_data.income_statement
        IN  inc.ebitda.v > inc.revenue.v => Anomalies("EBITDA Exceeds Revenue", "critical") # {}

\* the adjustments of the call's statement with this category
OfCategory(category) ==
    LET adjustments == Get(engine.args, "adjustments", <<>>)
    IN  Cardinality({i \in DOMAIN adjustments : adjustments[i].category = category})

\* C23: the QoE score before clamping is 80 minus exactly one magnitude
\* penalty (30 above 0.25, else 15 above 0.10, else 5 above 0.05 of
\* |total_adjustments| / max(|reported_ebitda|, 1)), minus 10, 8 and 5 for
\* every non_recurring, related_party and owner_compensation adjustment,
\* minus 15 if 0 < revenue < operating_expenses; the label is high from 70,
\* medium from 40, else low.
C23_ScoreFormula ==
    QoeReturned =>
        LET inc == engine.args.income_statement
            out == engine.ret.data
            total == IF out.total_adjustments < 0 THEN 0 - out.total_adjustments
                     ELSE out.total_adjustments
            reported == IF out.reported_ebitda < 0 THEN 0 - out.reported_ebitda
                        ELSE out.reported_ebitda
            base == IF reported > 1 THEN reported ELSE 1
            magnitude == IF 100 * total > 25 * base THEN 30
                         ELSE IF 100 * total > 10 * base THEN 15
                         ELSE IF 100 * total > 5 * base THEN 5
                         ELSE 0
            categories == 10 * OfCategory("non_recurring") + 8 * OfCategory("related_party")
                            + 5 * OfCategory("owner_compensation")
            expenses == IF inc.revenue.v > 0
                            /\ inc.revenue.v < Get(inc, "operating_expenses", Zero).v
                        THEN 15 ELSE 0
            raw == 80 - magnitude - categories - expenses
        IN  /\ out.quality_score = IF raw < 0 THEN 0 ELSE IF raw > 100 THEN 100 ELSE raw
            /\ out.earnings_sustainability =
                    IF out.quality_score >= 70 THEN "high"
                    ELSE IF out.quality_score >= 40 THEN "medium"
                    ELSE "low"

\* three non-recurring adjustments of 5 against a reported EBITDA of 100 and
\* expenses above revenue: 80 - 15 - 30 - 15
C23_Witness ==
    /\ QoeReturned
    /\ Get(engine.args, "adjustments", <<>>) = <<AdjLegal, AdjLegal, AdjLegal>>
    /\ engine.ret.data.reported_ebitda = 100
    /\ engine.args.income_statement.operating_expenses = Num(150)
    /\ engine.args.income_statement.revenue = Num(100)
    /\ engine.ret.data.quality_score = 20
    /\ engine.ret.data.earnings_sustainability = "low"

(***************************************************************************)
(* Direct calls of calculate_ratios                                        *)
(***************************************************************************)
\* Statements of profitable and loss-making companies, with revenue, assets,
\* equity and net income of either sign
RatioStatements ==
    {[income_statement |-> [revenue |-> Num(revenue), cogs |-> Num(40),
                            net_income |-> Num(ni), ebitda |-> Num(30), interest |-> Num(5)],
      balance_sheet |-> [total_current_assets |-> Num(ca), total_current_liabilities |-> Num(50),
                         total_assets |-> Num(ta), total_liabilities |-> Num(tl),
                         total_equity |-> Num(te)],
      cash_flow |-> [operating_cf |-> Num(ocf)]] :
        revenue \in {-100, 0, 100, 300}, ni \in {-20, 10, 40}, ca \in {0, 100},
        ta \in {-100, 0, 100}, tl \in {50, 300}, te \in {-50, 50}, ocf \in {-10, 20}}

RatiosInit ==
    /\ AtRest
    /\ engine \in {Call("calculate_ratios", s) : s \in RatioStatements}

\* ratios = calculate_ratios(financial_data): the result or the exception
CallRatios ==
    /\ engine.fn = "calculate_ratios"
    /\ ~engine.done
    /\ engine' = [engine EXCEPT
                    !.done = TRUE,
                    !.ret = IF ratios_raises(engine.args) THEN Raise
                            ELSE Return(calculate_ratios(engine.args))]
    /\ UNCHANGED <<dealStatus, docs, analyses, job, unavailable, service, np_random>>

RatiosSpec == RatiosInit /\ [][CallRatios]_vars

RatiosReturned == engine.fn = "calculate_ratios" /\ engine.done /\ engine.ret.kind = "ok"

\* C24: each of the five health sub-scores of calculate_ratios lies in
\* [0,100] for every statement, negative revenue, assets, equity or net income
\* included, and overall_health_score is an integer in [0,100] equal to the
\* truncated sum of the sub-scores weighted 0.20, 0.25, 0.20, 0.15, 0.20.
\* (Sub-scores are in sixths of a point: 600 is 100.)
C24_SubScoresInRange ==
    RatiosReturned =>
        LET out == engine.ret.data
            s == SubScores(out.liquidity.current_ratio, out.profitability.net_margin,
                           out.leverage.debt_to_equity, out.efficiency.asset_turnover,
                           out.cash_flow.ocf_to_net_income)
            weighted == 20 * s.liq + 25 * s.prof + 20 * s.lev + 15 * s.eff + 20 * s.cf_s
        IN  /\ \A k \in DOMAIN s : 0 <= s[k] /\ s[k] <= 600
            /\ 0 <= out.overall_health_score /\ out.overall_health_score <= 100
            /\ out.overall_health_score = weighted \div 600

\* the hard checks of layer 3 that hold for the statement a job has merged
HardChecks(jb) == Layer3(jb.merged, Features(jb.locals.ratios.val))

\* C25: the hard domain-invariant checks are evaluated on every run of the
\* anomaly stage, whether the multivariate layer succeeds, is skipped, raises
\* or is unavailable: the anomalies result a run has saved holds every
\* hard-check anomaly whose condition holds for the merged statement.
C25_HardChecksAlwaysSaved ==
    \A j \in Jobs :
        "anomalies" \in DOMAIN job[j].saved =>
            \A i \in DOMAIN HardChecks(job[j]) :
                \E k \in DOMAIN job[j].saved.anomalies.val :
                    job[j].saved.anomalies.val[k].anomaly = HardChecks(job[j])[i].anomaly

(***************************************************************************)
(* The primary extractor (services/claude_service.py, lines 111-157)       *)
(*                                                                         *)
(* A response of the model is what _parse_json makes of it: <<>> when no   *)
(* JSON object is found, <<statement>> otherwise.                          *)
(***************************************************************************)
\* lines 123-127: the fields of the first pass that are zero
ZeroFields(result) ==
    {<<section, key>> \in
        UNION {{<<s, k>> : k \in DOMAIN Get(result, s, EmptyDict)} :
                    s \in {"income_statement", "balance_sheet"}} :
        ~Truthy(result[section][key])}

\* lines 129-132
TotalFields(result) ==
    Cardinality(DOMAIN Get(result, "income_statement", EmptyDict))
        + Cardinality(DOMAIN Get(result, "balance_sheet", EmptyDict))

\* line 134: len(zero_fields) / total_fields > 0.6
NeedsRetry(result) ==
    TotalFields(result) > 0 /\ 5 * Cardinality(ZeroFields(result)) > 3 * TotalFields(result)

FoldSection_overwrites(section, retry_section) ==
    [k \in (DOMAIN section) \cup (DOMAIN retry_section) |->
        IF k \in DOMAIN retry_section THEN retry_section[k] ELSE section[k]]

\* lines 150-152: result.setdefault(section, {})[key] = val for each non-zero val
FoldSection(section, retry_section) ==
    LET found == {k \in DOMAIN retry_section : Truthy(retry_section[k])}
    IN  [k \in (DOMAIN section) \cup found |->
            IF k \in found THEN retry_section[k] ELSE section[k]]

\* lines 149-154
FoldRetry(result, retry_result) ==
    LET Touched(s) ==
            \E k \in DOMAIN Get(retry_result, s, EmptyDict) : Truthy(retry_result[s][k])
        sections == {s \in {"income_statement", "balance_sheet", "cash_flow"} :
                        s \in DOMAIN result \/ Touched(s)}
        replace == NonEmpty(Get(retry_result, "adjustments", <<>>))
        keys == (DOMAIN result) \cup sections
                    \cup (IF replace THEN {"adjustments"} ELSE {})
    IN  [k \in keys |->
            IF k \in sections
            THEN FoldSection(Get(result, k, EmptyDict), Get(retry_result, k, EmptyDict))
            ELSE IF k = "adjustments" /\ replace THEN retry_result.adjustments
            ELSE result[k]]

\* extract_financial_data, given what _parse_json makes of the first response
\* and of the retry's: the value returned and the number of requests sent
extract_financial_data(first, retry) ==
    IF first = <<>> THEN [result |-> ReturnNone, chats |-> 1]
    ELSE IF ~NonEmpty(first[1]) THEN [result |-> ReturnNone, chats |-> 1]
    ELSE IF ~NeedsRetry(first[1]) THEN [result |-> Return(first[1]), chats |-> 1]
    ELSE IF retry = <<>> THEN [result |-> Return(first[1]), chats |-> 2]
    ELSE IF ~NonEmpty(retry[1]) THEN [result |-> Return(first[1]), chats |-> 2]
    ELSE [result |-> Return(FoldRetry(first[1], retry[1])), chats |-> 2]

\* First-pass statements of five fields, each zero, null or found, with and
\* without a cash-flow section and adjustments
FirstPasses ==
    {EmptyDict, [company_name |-> "Apex", adjustments |-> <<>>]}
    \cup {Bind([income_statement |-> [revenue |-> revenue, cogs |-> Num(cogs),
                                      net_income |-> Num(ni)],
                balance_sheet |-> [cash |-> Num(cash), total_assets |-> Num(ta)],
                notes |-> <<"first pass">>],
               "adjustments", a) :
            revenue \in {None, Num(100)}, cogs \in {0, 60}, ni \in {0, 10},
            cash \in {0, 7}, ta \in {0, 90}, a \in {<<>>, <<AdjLegal>>}}
    \cup {[income_statement |-> [revenue |-> Num(0), net_income |-> Num(0)],
           cash_flow |-> [fcf |-> Num(4)]]}

\* What the retry returns: fields found, returned as zero, or left out
Retries ==
    {EmptyDict, [balance_sheet |-> [cash |-> Num(5)], notes |-> <<"retry">>]}
    \cup {[income_statement |-> [revenue |-> Num(revenue), net_income |-> Num(ni)],
           cash_flow |-> [fcf |-> Num(fcf)],
           adjustments |-> a] :
            revenue \in {0, 77}, ni \in {0, 55}, fcf \in {0, 9}, a \in {<<>>, <<AdjOwner>>}}

Parsed(statements) == {<<>>} \cup {<<s>> : s \in statements}

ExtractInit ==
    /\ AtRest
    /\ engine \in {Call("extract_financial_data", [first |-> f, retry |-> r]) :
                        f \in Parsed(FirstPasses), r \in Parsed(Retries)}

\* data = extract_financial_data(document_text, filename)
CallExtract ==
    /\ engine.fn = "extract_financial_data"
    /\ ~engine.done
    /\ engine' = [engine EXCEPT
                    !.done = TRUE,
                    !.ret = extract_financial_data(engine.args.first, engine.args.retry)]
    /\ UNCHANGED <<dealStatus, docs, analyses, job, unavailable, service, np_random>>

ExtractSpec == ExtractInit /\ [][CallExtract]_vars

Extracted == engine.fn = "extract_financial_data" /\ engine.done

\* the first pass parsed and the retry was sent and parsed
Folded ==
    /\ Extracted
    /\ engine.ret.chats = 2
    /\ engine.args.retry # <<>>
    /\ DOMAIN engine.args.retry[1] # {}

\* C26: the retry runs only when more than 60% of the first pass's
\* income-statement and balance-sheet fields are zero; a field changes only if
\* the retry returned a non-zero value for it, every other field keeps its
\* first-pass value, the adjustments are replaced only by a non-empty list,
\* and a retry without parseable result leaves the first pass unchanged.
C26_RetryMonotone ==
    (Extracted /\ engine.args.first # <<>> /\ DOMAIN engine.args.first[1] # {}) =>
        LET first == engine.args.first[1]
            out == engine.ret.result.data
            Fields(s) == Get(first, s, EmptyDict)
            zero == Cardinality({k \in DOMAIN Fields("income_statement") :
                                    ~Truthy(first.income_statement[k])})
                    + Cardinality({k \in DOMAIN Fields("balance_sheet") :
                                    ~Truthy(first.balance_sheet[k])})
            total == Cardinality(DOMAIN Fields("income_statement"))
                        + Cardinality(DOMAIN Fields("balance_sheet"))
        IN  /\ engine.ret.result.kind = "ok"
            /\ engine.ret.chats = 2 => 10 * zero > 6 * total
            /\ ~Folded => out = first
            /\ Folded =>
                LET retry == engine.args.retry[1]
                    Again(s) == Get(retry, s, EmptyDict)
                IN  /\ \A s \in {"income_statement", "balance_sheet", "cash_flow"} :
                            /\ \A k \in DOMAIN Fields(s) :
                                    /\ s \in DOMAIN out /\ k \in DOMAIN out[s]
                                    /\ out[s][k] = IF Truthy(Get(Again(s), k, None))
                                                   THEN retry[s][k] ELSE first[s][k]
                            /\ \A k \in DOMAIN Get(out, s, EmptyDict) :
                                    k \notin DOMAIN Fields(s) =>
                                        Truthy(Get(Again(s), k, None)) /\ out[s][k] = retry[s][k]
                    /\ Get(out, "adjustments", <<>>) =
                            IF Get(retry, "adjustments", <<>>) # <<>> THEN retry.adjustments
                            ELSE Get(first, "adjustments", <<>>)
                    /\ Get(out, "notes", <<>>) = Get(first, "notes", <<>>)

\* the retry found the revenue, returned net income as zero and gave no
\* adjustments: revenue is filled in, the cost of sales, the cash and the
\* first pass's adjustment stay
C26_Witness ==
    /\ Folded
    /\ engine.args.first # <<>>
    /\ engine.ret.result.kind = "ok"
    /\ LET first == engine.args.first[1]
           retry == engine.args.retry[1]
           out == engine.ret.result.data
           Income(d) == Get(d, "income_statement", EmptyDict)
       IN  /\ Get(Income(first), "revenue", Num(1)) = None
           /\ Get(Income(first), "cogs", None) = Num(60)
           /\ Get(first, "adjustments", <<>>) = <<AdjLegal>>
           /\ DOMAIN Income(retry) = {"revenue", "net_income"}
           /\ Get(Income(retry), "revenue", None) = Num(77)
           /\ Get(Income(retry), "net_income", None) = Num(0)
           /\ Get(retry, "adjustments", <<AdjLegal>>) = <<>>
           /\ Get(Income(out), "revenue", None) = Num(77)
           /\ Get(Income(out), "cogs", None) = Num(60)
           /\ Get(out, "adjustments", <<>>) = <<AdjLegal>>

\* C27: the deal is completed when report generation starts, and however the
\* reporting block ends (its reports written, a report raising, the whole
\* block raising), the job ends as done with the deal's status and every row
\* of the analyses table as they were.
C27_ReportsKeepCompleted ==
    /\ [](\A j \in Jobs :
            job[j].pc = "reports" => dealStatus[job[j].deal_id] = "completed")
    /\ [][\A j \in Jobs :
            job[j].pc = "reports" /\ job'[j].pc \notin {"reports", "crashed"}
            => /\ job'[j].pc = "done"
               /\ dealStatus' = dealStatus
               /\ analyses' = analyses]_vars

\* the first job's reporting block is over: its deal is completed and has a
\* completed row for each of the seven types
C27_Witness ==
    /\ job[1].pc = "done" /\ job[1].at = "reports"
    /\ job[2].pc = "idle"
    /\ dealStatus[job[1].deal_id] = "completed"
    /\ \A t \in Types : RowsOf(job[1].deal_id, t) # {}

\* C28: when runs follow one another, a run saves its stages in the order
\* qoe, working_capital, ratios, dcf, red_flags, anomalies, ai_insights: what
\* it has saved is always a prefix of that order and the stage it is saving is
\* the next one; and once it has set the deal completed, it has saved all
\* seven and the deal has a completed row of each type.
C28_StagesInOrder ==
    \A j \in Jobs :
        /\ Live(j) =>
              \E n \in 0..Len(AnalysisTypes) :
                  DOMAIN job[j].saved = {AnalysisTypes[i] : i \in 1..n}
        /\ job[j].pc = "save" =>
              job[j].stage = AnalysisTypes[Cardinality(DOMAIN job[j].saved) + 1]
        /\ job[j].pc \in {"complete", "reports"} => DOMAIN job[j].saved = Types
        /\ job[j].pc = "reports" =>
              /\ dealStatus[job[j].deal_id] = "completed"
              /\ \A t \in Types :
                    \E i \in RowsOf(job[j].deal_id, t) : analyses[i].status = "completed"

\* the first run of the deal that had no rows has set it completed
C28_Witness ==
    /\ job[1].pc = "reports" /\ job[1].deal_id = 2
    /\ job[2].pc = "idle"
    /\ \A t \in Types : Cardinality(RowsOf(2, t)) = 1

C30_EmptyStoredAsNull ==
    \A j \in Jobs :
        job[j].pc = "reports" =>
            \A t \in Types :
                \A i \in RowsOf(job[j].deal_id, t) :
                    /\ analyses[i].status = "completed"
                    /\ analyses[i].error_message = NULL
                    /\ IF PyTruthy(job[j].saved[t])
                       THEN parse_json_field(analyses[i].results) = <<job[j].saved[t]>>
                       ELSE /\ analyses[i].results = NULL
                            /\ parse_json_field(analyses[i].results) = <<>>

\* a run that saved an empty list of anomalies, no insights and a non-empty
\* list of red flags: the first two rows hold NULL, the third the list
C30_Witness ==
    \E j \in Jobs :
        /\ job[j].pc = "reports"
        /\ job[j].saved["anomalies"] = PyList(<<>>)
        /\ job[j].saved["ai_insights"] = PyNone
        /\ job[j].saved["red_flags"].val # <<>>
        /\ \A i \in RowsOf(job[j].deal_id, "anomalies") \cup RowsOf(job[j].deal_id, "ai_insights") :
              analyses[i].results = NULL
        /\ \A i \in RowsOf(job[j].deal_id, "red_flags") :
              parse_json_field(analyses[i].results) = <<job[j].saved["red_flags"]>>

====
